---- MODULE Spec2Model ----
(***************************************************************************)
(* A model of the lucid toolchain: lexer, semantic types, symbol table,    *)
(* type checker, bytecode compiler and stack VM.                           *)
(*                                                                         *)
(* Conventions.  C++ vectors are 0-indexed, TLA+ sequences 1-indexed: a    *)
(* byte offset or slot i of the source is element i+1 of the sequence.     *)
(* A C++ exception is a non-empty "error" field / the "error" state.       *)
(* A double is modelled by the exact rational <<num, den>> (den > 0, in    *)
(* lowest terms); an int64_t by an integer far below the width limit.      *)
(* The POW and CALL_BUILTIN handlers (libm, host I/O) are not modelled and *)
(* no program of the bounded input sets executes them.                     *)
(***************************************************************************)
EXTENDS Integers, Sequences, FiniteSets, TLC

VARIABLES
    \* ---- backend: compiler input and VM (vm.hpp, class VM) ----
    source,        \* what bytecode_ was built from (an AST or an assembled listing)
    bytecode_,     \* VM::bytecode_ (the Bytecode the VM runs)
    stack_,        \* VM::stack_ (operand stack)
    call_stack_,   \* VM::call_stack_ (CallFrames)
    vm_state,      \* position of the VM: idle / running / finishing / done / error
    vm_error,      \* message of the std::runtime_error that aborted execution
    vm_result,     \* value returned by call_function
    vm_call,       \* [function_name, args]: the parameters of the call_function call
    vm_earlier,    \* history: [calls, stack, frames], the number of call_function calls so
                   \* far and the sizes of stack_ and call_stack_ the latest found
    \* ---- semantic: SymbolTable (symbol_table.hpp) ----
    symtab,        \* [scopes_, current_] of a SymbolTable
    sym_last,      \* result of the last SymbolTable operation
    sym_live,      \* history: scopes entered and not yet exited (innermost last)
    \* ---- semantic: SemanticType::equals (type_system.cpp) ----
    ty,            \* [t1, t2, result, pc] of one equals call
    \* ---- semantic: TypeChecker::check_program (type_checker.cpp) ----
    tc_run,        \* [program, i, j, checker, checked, returned, result] of check_program
    \* ---- frontend: Lexer (lexer.hpp) ----
    lx,            \* [source_, current_, start_, line_, line_start_, tokens, pc]
    \* ---- frontend: Parser (parser.hpp) ----
    ps,            \* [parser, result, pc] of one parse_expression call
    \* ---- semantic: TypeChecker::check_expression (type_checker.cpp) ----
    ce             \* [checker, expr, type, pc] of one check_expression call

vmVars == <<source, bytecode_, stack_, call_stack_, vm_state, vm_error, vm_result,
           vm_call, vm_earlier>>
symVars == <<symtab, sym_last, sym_live>>
notVmVars == <<symtab, sym_last, sym_live, ty, tc_run, lx, ps, ce>>
notSymVars == <<source, bytecode_, stack_, call_stack_, vm_state, vm_error, vm_result,
               vm_call, vm_earlier, ty, tc_run, lx, ps, ce>>
vars == <<source, bytecode_, stack_, call_stack_, vm_state, vm_error, vm_result,
          vm_call, vm_earlier, symtab, sym_last, sym_live, ty, tc_run, lx, ps, ce>>

(***************************************************************************)
(* Generic helpers                                                         *)
(***************************************************************************)
Last(s) == s[Len(s)]
Front(s) == SubSeq(s, 1, Len(s) - 1)
DropLast(s, n) == SubSeq(s, 1, Len(s) - n)
TakeLast(s, n) == SubSeq(s, Len(s) - n + 1, Len(s))
Reverse(s) == [i \in 1..Len(s) |-> s[Len(s) + 1 - i]]
Abs(n) == IF n < 0 THEN -n ELSE n

RECURSIVE Gcd(_, _)
Gcd(a, b) == IF b = 0 THEN a ELSE Gcd(b, a % b)

(***************************************************************************)
(* Runtime values (value.hpp, class Value)                                 *)
(***************************************************************************)
IntV(n) == [type |-> "Int", int_val |-> n]
\* the double num/den, kept in lowest terms with den > 0
FloatV(num, den) ==
    LET g == Gcd(Abs(num), Abs(den))
        s == IF den < 0 THEN -1 ELSE 1
    IN [type |-> "Float", float_val |-> <<(s * num) \div g, (s * den) \div g>>]
BoolV(b) == [type |-> "Bool", bool_val |-> b]
StringV(s) == [type |-> "String", string_val |-> s]
ListV(elems) == [type |-> "List", list_val |-> elems]
TupleV(elems) == [type |-> "Tuple", tuple_val |-> elems]
FunctionV(idx, name) == [type |-> "Function", index |-> idx, name |-> name]

FNum(v) == v.float_val[1]
FDen(v) == v.float_val[2]
\* static_cast<double>(int64_t)
IntToFloat(n) == FloatV(n, 1)

\* Value::is_truthy
is_truthy_string_always(v) ==
    CASE v.type = "Bool" -> v.bool_val
      [] v.type = "Int" -> v.int_val # 0
      [] v.type = "Float" -> FNum(v) # 0
      [] v.type = "String" -> TRUE
      [] v.type = "List" -> v.list_val # <<>>
      [] v.type = "Tuple" -> v.tuple_val # <<>>
      [] v.type = "Function" -> TRUE
      [] OTHER -> FALSE
is_truthy(v) ==
    CASE v.type = "Bool" -> v.bool_val
      [] v.type = "Int" -> v.int_val # 0
      [] v.type = "Float" -> FNum(v) # 0
      [] v.type = "String" -> v.string_val # ""
      [] v.type = "List" -> v.list_val # <<>>
      [] v.type = "Tuple" -> v.tuple_val # <<>>
      [] v.type = "Function" -> TRUE
      [] OTHER -> FALSE

\* Value::operator== ; vectors compare element-wise with the same operator
RECURSIVE ValueEq(_, _)
ValueEq(a, b) ==
    IF a.type # b.type THEN FALSE
    ELSE CASE a.type = "Int" -> a.int_val = b.int_val
           [] a.type = "Float" -> a.float_val = b.float_val
           [] a.type = "Bool" -> a.bool_val = b.bool_val
           [] a.type = "String" -> a.string_val = b.string_val
           [] a.type = "List" ->
                /\ Len(a.list_val) = Len(b.list_val)
                /\ \A i \in 1..Len(a.list_val) : ValueEq(a.list_val[i], b.list_val[i])
           [] a.type = "Tuple" ->
                /\ Len(a.tuple_val) = Len(b.tuple_val)
                /\ \A i \in 1..Len(a.tuple_val) : ValueEq(a.tuple_val[i], b.tuple_val[i])
           [] a.type = "Function" -> a.index = b.index
           [] OTHER -> FALSE

(***************************************************************************)
(* Bytecode (bytecode.hpp / bytecode.cpp)                                  *)
(***************************************************************************)
\* enum class OpCode : uint8_t, in declaration order: the opcode byte of a
\* name is its position in this list, counted from 0
OpCodeNames ==
    << "CONSTANT", "TRUE", "FALSE",
       "LOAD_LOCAL", "STORE_LOCAL", "LOAD_GLOBAL",
       "ADD", "SUB", "MUL", "DIV", "MOD", "POW",
       "EQ", "NE", "LT", "GT", "LE", "GE",
       "AND", "OR", "NOT",
       "NEGATE", "POSITIVE",
       "BUILD_LIST", "BUILD_TUPLE", "INDEX",
       "CALL_METHOD", "CALL_BUILTIN",
       "JUMP", "JUMP_IF_FALSE", "JUMP_IF_TRUE",
       "CALL", "RETURN",
       "POP", "DUP",
       "HALT" >>

\* static_cast<uint8_t>(OpCode::name)
OpCode(name) == (CHOOSE i \in 1..Len(OpCodeNames) : OpCodeNames[i] = name) - 1

\* static_cast<OpCode>(byte), "UNKNOWN" for a byte outside the enum
OpName(byte) == IF byte < Len(OpCodeNames) THEN OpCodeNames[byte + 1] ELSE "UNKNOWN"

U8(n) == n % 256
U16(n) == n % 65536
\* static_cast<int16_t>(uint16_t)
I16(u) == IF u >= 32768 THEN u - 65536 ELSE u
LowByte(n) == U16(n) % 256
HighByte(n) == (U16(n) \div 256) % 256

EmptyBytecode == [instructions |-> <<>>, constants |-> <<>>, functions |-> <<>>]

\* Bytecode::current_offset
current_offset(bc) == Len(bc.instructions)

\* Bytecode::emit(OpCode)
emit0(bc, op) == [bc EXCEPT !.instructions = Append(@, OpCode(op))]
\* Bytecode::emit(OpCode, uint16_t): little-endian operand
emit16(bc, op, operand) ==
    [bc EXCEPT !.instructions = @ \o <<OpCode(op), LowByte(operand), HighByte(operand)>>]
\* Bytecode::emit(OpCode, uint16_t, uint8_t)
emit16_8(bc, op, operand1, operand2) ==
    [bc EXCEPT !.instructions =
        @ \o <<OpCode(op), LowByte(operand1), HighByte(operand1), U8(operand2)>>]

\* Bytecode::add_constant: appends, returns the new index (no de-duplication)
add_constant(bc, value) == [bc EXCEPT !.constants = Append(@, value)]
last_constant(bc) == Len(bc.constants) - 1

\* Bytecode::add_function
add_function(bc, name, offset, param_count, local_count) ==
    [bc EXCEPT !.functions = Append(@, [name |-> name, offset |-> offset,
                                         param_count |-> param_count,
                                         local_count |-> local_count])]

\* Bytecode::find_function: first entry with the name, -1 when none
find_function_or_first(bc, name) ==
    LET hits == {i \in 1..Len(bc.functions) : bc.functions[i].name = name}
    IN IF hits = {} THEN 0
       ELSE (CHOOSE i \in hits : \A j \in hits : i <= j) - 1
find_function(bc, name) ==
    LET hits == {i \in 1..Len(bc.functions) : bc.functions[i].name = name}
    IN IF hits = {} THEN -1
       ELSE (CHOOSE i \in hits : \A j \in hits : i <= j) - 1

\* Bytecode::patch_jump: write jump_offset over the two operand bytes of the
\* jump whose opcode is at `offset`
patch_jump_bytes_bigendian(bc, offset, jump_offset) ==
    [bc EXCEPT !.instructions[offset + 2] = HighByte(jump_offset),
               !.instructions[offset + 3] = LowByte(jump_offset)]
patch_jump_bytes(bc, offset, jump_offset) ==
    [bc EXCEPT !.instructions[offset + 2] = LowByte(jump_offset),
               !.instructions[offset + 3] = HighByte(jump_offset)]

(***************************************************************************)
(* AST (ast.hpp).  A std::optional child is a sequence of length 0 or 1.   *)
(***************************************************************************)
\* the value field of each literal class carries the class in its name
IntLit(n) == [kind |-> "IntLiteral", int_value |-> n]
FloatLit(num, den) == [kind |-> "FloatLiteral", float_value |-> <<num, den>>]
StringLit(s) == [kind |-> "StringLiteral", string_value |-> s]
BoolLit(b) == [kind |-> "BoolLiteral", bool_value |-> b]
Ident(name) == [kind |-> "Identifier", name |-> name]
TupleE(elements) == [kind |-> "Tuple", elements |-> elements]
ListE(elements) == [kind |-> "List", elements |-> elements]
Binary(op, left, right) == [kind |-> "Binary", op |-> op, left |-> left, right |-> right]
Unary(op, operand) == [kind |-> "Unary", op |-> op, operand |-> operand]
Call(callee, arguments) == [kind |-> "Call", callee |-> callee, arguments |-> arguments]
MethodCall(object, method_name, arguments) ==
    [kind |-> "MethodCall", object |-> object, method_name |-> method_name,
     arguments |-> arguments]
Index(object, index) == [kind |-> "Index", object |-> object, index |-> index]
Lambda(parameters, body) == [kind |-> "Lambda", parameters |-> parameters, body |-> body]
If(condition, then_branch, else_branch) ==
    [kind |-> "If", condition |-> condition, then_branch |-> then_branch,
     else_branch |-> else_branch]
Block(statements) == [kind |-> "Block", statements |-> statements]

Let(pattern, type_annotation, initializer) ==
    [kind |-> "Let", pattern |-> pattern, type_annotation |-> type_annotation,
     initializer |-> initializer]
Return(value) == [kind |-> "Return", value |-> value]
ExprStmt(expression) == [kind |-> "ExprStmt", expression |-> expression]

IdentPat(name) == [kind |-> "Identifier", name |-> name]
TuplePat(elements) == [kind |-> "Tuple", elements |-> elements]

NamedType(name) == [kind |-> "Named", name |-> name]
ListTypeAnn(element_type) == [kind |-> "List", element_type |-> element_type]
TupleTypeAnn(element_types) == [kind |-> "Tuple", element_types |-> element_types]

Parameter(name, type) == [name |-> name, type |-> type]
FunctionDef(name, parameters, return_type, statements) ==
    [name |-> name, parameters |-> parameters, return_type |-> return_type,
     body |-> Block(statements)]

(***************************************************************************)
(* Compiler (compiler.cpp).  The compiler object is the record             *)
(* [bytecode_, function_indices_, scopes_, error]; a thrown                *)
(* std::runtime_error sets error, after which nothing more is emitted.     *)
(***************************************************************************)
EmptyMap == [n \in {} |-> 0]
MapPut(m, k, v) == (k :> v) @@ m

NewCompiler ==
    [bytecode_ |-> EmptyBytecode, function_indices_ |-> EmptyMap,
     scopes_ |-> <<>>, error |-> ""]

Failed(c) == c.error # ""
Throw(c, msg) == IF Failed(c) THEN c ELSE [c EXCEPT !.error = msg]

\* Compiler::emit overloads and Compiler::add_constant
c_emit0(c, op) == IF Failed(c) THEN c ELSE [c EXCEPT !.bytecode_ = emit0(@, op)]
c_emit16(c, op, operand) ==
    IF Failed(c) THEN c ELSE [c EXCEPT !.bytecode_ = emit16(@, op, operand)]
c_emit16_8(c, op, operand1, operand2) ==
    IF Failed(c) THEN c ELSE [c EXCEPT !.bytecode_ = emit16_8(@, op, operand1, operand2)]
c_add_constant(c, value) ==
    IF Failed(c) THEN c ELSE [c EXCEPT !.bytecode_ = add_constant(@, value)]
\* add a constant and emit CONSTANT with its index
c_constant(c, value) ==
    LET c1 == c_add_constant(c, value)
    IN c_emit16(c1, "CONSTANT", last_constant(c1.bytecode_))

\* Compiler::enter_scope / exit_scope
enter_scope(c) ==
    IF Failed(c) THEN c
    ELSE [c EXCEPT !.scopes_ = Append(@, [locals |-> EmptyMap, local_count |-> 0])]
exit_scope(c) ==
    IF Failed(c) \/ c.scopes_ = <<>> THEN c ELSE [c EXCEPT !.scopes_ = Front(@)]

\* Compiler::declare_local: slot = local_count++ of the innermost scope; an
\* existing entry of the same name is overwritten
next_local(c) == Last(c.scopes_).local_count
declare_local(c, name) ==
    IF Failed(c) THEN c
    ELSE IF c.scopes_ = <<>> THEN Throw(c, "Cannot declare local outside of scope")
    ELSE LET n == Len(c.scopes_)
             index == c.scopes_[n].local_count
         IN [c EXCEPT !.scopes_[n] =
                [locals |-> MapPut(@.locals, name, index), local_count |-> index + 1]]

\* Compiler::resolve_local: innermost scope first, -1 when not found
resolve_local(c, name) ==
    LET hits == {i \in 1..Len(c.scopes_) : name \in DOMAIN c.scopes_[i].locals}
    IN IF hits = {} THEN -1
       ELSE c.scopes_[CHOOSE i \in hits : \A j \in hits : j <= i].locals[name]

\* Compiler::resolve_function
resolve_function(c, name) ==
    IF name \in DOMAIN c.function_indices_ THEN c.function_indices_[name] ELSE -1

\* Compiler::emit_jump: placeholder operand 0xFFFF; the jump's own offset is
\* current_offset() - 3 afterwards
emit_jump(c, op) == c_emit16(c, op, 65535)
jump_offset_of(c) == current_offset(c.bytecode_) - 3

\* Compiler::patch_jump and the range check of Bytecode::patch_jump
patch_jump(c, offset) ==
    IF Failed(c) THEN c
    ELSE LET jump == I16(U16(current_offset(c.bytecode_) - (offset + 3)))
         IN IF offset + 2 >= Len(c.bytecode_.instructions)
            THEN Throw(c, "Invalid jump patch offset")
            ELSE [c EXCEPT !.bytecode_ = patch_jump_bytes(@, offset, jump)]

BinaryOpCode(op) ==
    CASE op = "Add" -> "ADD" [] op = "Sub" -> "SUB" [] op = "Mul" -> "MUL"
      [] op = "Div" -> "DIV" [] op = "Mod" -> "MOD" [] op = "Pow" -> "POW"
      [] op = "Eq" -> "EQ" [] op = "Ne" -> "NE" [] op = "Lt" -> "LT"
      [] op = "Gt" -> "GT" [] op = "Le" -> "LE" [] op = "Ge" -> "GE"
      [] op = "And" -> "AND" [] op = "Or" -> "OR"
UnaryOpCode(op) ==
    CASE op = "Not" -> "NOT" [] op = "Neg" -> "NEGATE" [] op = "Pos" -> "POSITIVE"

\* enum class BuiltinId, in declaration order from 0
BuiltinNames ==
    <<"print", "println", "to_string", "read_file", "write_file", "append_file",
      "file_exists">>
IsBuiltin(name) == \E i \in 1..Len(BuiltinNames) : BuiltinNames[i] = name
BuiltinId(name) == (CHOOSE i \in 1..Len(BuiltinNames) : BuiltinNames[i] = name) - 1

RECURSIVE visit_expr(_, _), visit_exprs(_, _), visit_stmt(_, _), visit_stmts(_, _),
          compile_pattern(_, _, _), compile_pattern_elements(_, _, _, _)

\* a failed compiler is what the C++ code leaves by throwing: nothing after the
\* throw is compiled
visit_exprs(c, es) ==
    IF es = <<>> THEN c
    ELSE LET c1 == visit_expr(c, Head(es))
         IN IF Failed(c1) THEN c1 ELSE visit_exprs(c1, Tail(es))

visit_stmts(c, ss) ==
    IF ss = <<>> THEN c
    ELSE LET c1 == visit_stmt(c, Head(ss))
         IN IF Failed(c1) THEN c1 ELSE visit_stmts(c1, Tail(ss))

\* Compiler::visit_identifier
visit_identifier(c, expr) ==
    LET local_idx == resolve_local(c, expr.name)
        func_idx == resolve_function(c, expr.name)
    IN IF local_idx >= 0 THEN c_emit16(c, "LOAD_LOCAL", local_idx)
       ELSE IF func_idx >= 0 THEN c_emit16(c, "LOAD_GLOBAL", func_idx)
       ELSE Throw(c, "Undefined identifier")

\* Compiler::visit_call
visit_call(c, expr) ==
    IF expr.callee.kind = "Identifier" /\ IsBuiltin(expr.callee.name)
    THEN c_emit16_8(visit_exprs(c, expr.arguments), "CALL_BUILTIN",
                    BuiltinId(expr.callee.name), Len(expr.arguments))
    ELSE LET c1 == visit_exprs(c, expr.arguments)
             c2 == visit_expr(c1, expr.callee)
             func_idx == IF expr.callee.kind = "Identifier"
                         THEN resolve_function(c2, expr.callee.name) ELSE -1
         IN IF Failed(c1) THEN c1
            ELSE IF Failed(c2) THEN c2
            ELSE IF func_idx >= 0
            THEN c_emit16_8([c2 EXCEPT !.bytecode_.instructions = DropLast(@, 3)],
                            "CALL", func_idx, Len(expr.arguments))
            ELSE Throw(c2, "Only direct function calls supported in Day 2")

\* Compiler::visit_if
visit_if(c, expr) ==
    LET c1 == emit_jump(visit_expr(c, expr.condition), "JUMP_IF_FALSE")
        else_jump == jump_offset_of(c1)
        c2 == emit_jump(visit_expr(c_emit0(c1, "POP"), expr.then_branch), "JUMP")
        end_jump == jump_offset_of(c2)
        c3 == c_emit0(patch_jump(c2, else_jump), "POP")
        c4 == IF expr.else_branch # <<>>
              THEN visit_expr(c3, expr.else_branch[1])
              ELSE c_emit0(c3, "FALSE")
    IN IF Failed(c1) THEN c1
       ELSE IF Failed(c2) THEN c2
       ELSE IF Failed(c3) THEN c3
       ELSE patch_jump(c4, end_jump)

\* Compiler::visit_block: the last statement, when an ExprStmt, is compiled
\* as its expression with no trailing POP
visit_block(c, expr) ==
    IF expr.statements = <<>> THEN c_emit0(c, "FALSE")
    ELSE LET c1 == visit_stmts(c, Front(expr.statements))
             last_stmt == Last(expr.statements)
         IN IF last_stmt.kind = "ExprStmt"
            THEN visit_expr(c1, last_stmt.expression)
            ELSE visit_stmt(c1, last_stmt)

visit_expr(c, expr) ==
    IF Failed(c) THEN c
    ELSE CASE expr.kind = "IntLiteral" -> c_constant(c, IntV(expr.int_value))
           [] expr.kind = "FloatLiteral" ->
                c_constant(c, FloatV(expr.float_value[1], expr.float_value[2]))
           [] expr.kind = "StringLiteral" -> c_constant(c, StringV(expr.string_value))
           [] expr.kind = "BoolLiteral" ->
                c_emit0(c, IF expr.bool_value THEN "TRUE" ELSE "FALSE")
           [] expr.kind = "Identifier" -> visit_identifier(c, expr)
           [] expr.kind = "Binary" ->
                LET c1 == visit_expr(c, expr.left)
                IN IF Failed(c1) THEN c1
                   ELSE c_emit0(visit_expr(c1, expr.right), BinaryOpCode(expr.op))
           [] expr.kind = "Unary" ->
                c_emit0(visit_expr(c, expr.operand), UnaryOpCode(expr.op))
           [] expr.kind = "Tuple" ->
                c_emit16(visit_exprs(c, expr.elements), "BUILD_TUPLE", Len(expr.elements))
           [] expr.kind = "List" ->
                c_emit16(visit_exprs(c, expr.elements), "BUILD_LIST", Len(expr.elements))
           [] expr.kind = "Index" ->
                c_emit0(visit_expr(visit_expr(c, expr.object), expr.index), "INDEX")
           [] expr.kind = "Call" -> visit_call(c, expr)
           [] expr.kind = "MethodCall" ->
                LET c1 == c_add_constant(
                              visit_exprs(visit_expr(c, expr.object), expr.arguments),
                              StringV(expr.method_name))
                IN c_emit16_8(c1, "CALL_METHOD", last_constant(c1.bytecode_),
                              Len(expr.arguments))
           [] expr.kind = "If" -> visit_if(c, expr)
           [] expr.kind = "Block" -> visit_block(c, expr)
           [] expr.kind = "Lambda" -> Throw(c, "Lambda expressions not yet implemented")

\* Compiler::visit_let / visit_return / visit_expr_stmt
visit_stmt(c, stmt) ==
    IF Failed(c) THEN c
    ELSE CASE stmt.kind = "Let" ->
                compile_pattern(visit_expr(c, stmt.initializer), stmt.pattern, TRUE)
           [] stmt.kind = "Return" -> c_emit0(visit_expr(c, stmt.value), "RETURN")
           [] stmt.kind = "ExprStmt" -> c_emit0(visit_expr(c, stmt.expression), "POP")

\* the loop of the Tuple case of compile_pattern, from element i (0-based)
compile_pattern_elements(c, elements, i, is_declaration) ==
    IF i >= Len(elements) THEN c
    ELSE LET c1 == c_emit0(c_constant(c_emit0(c, "DUP"), IntV(i)), "INDEX")
         IN compile_pattern_elements(
                compile_pattern(c1, elements[i + 1], is_declaration),
                elements, i + 1, is_declaration)

\* Compiler::compile_pattern
compile_pattern(c, pattern, is_declaration) ==
    IF Failed(c) THEN c
    ELSE CASE pattern.kind = "Identifier" ->
                IF is_declaration
                THEN c_emit16(declare_local(c, pattern.name), "STORE_LOCAL", next_local(c))
                ELSE IF resolve_local(c, pattern.name) >= 0
                     THEN c_emit16(c, "STORE_LOCAL", resolve_local(c, pattern.name))
                     ELSE Throw(c, "Undefined variable")
           [] pattern.kind = "Tuple" ->
                c_emit0(compile_pattern_elements(c, pattern.elements, 0, is_declaration),
                        "POP")

RECURSIVE declare_parameters(_, _)
declare_parameters(c, parameters) ==
    IF parameters = <<>> THEN c
    ELSE LET c1 == declare_local(c, Head(parameters).name)
         IN IF Failed(c1) THEN c1 ELSE declare_parameters(c1, Tail(parameters))

\* Compiler::collect_functions (pass 1)
RECURSIVE collect_functions(_, _)
collect_functions(c, functions) ==
    IF functions = <<>> THEN c
    ELSE LET f == Head(functions)
             c1 == [c EXCEPT
                      !.bytecode_ = add_function(@, f.name, current_offset(@),
                                                 Len(f.parameters), Len(f.parameters)),
                      !.function_indices_ =
                          MapPut(@, f.name, Len(c.bytecode_.functions))]
         IN collect_functions(c1, Tail(functions))

\* Compiler::compile_function (pass 2): the implicit RETURN is decided by the
\* last byte of the instruction stream
needs_implicit_return_never(bc) == FALSE
needs_implicit_return(bc) ==
    bc.instructions = <<>> \/ Last(bc.instructions) # OpCode("RETURN")

compile_function(c, function) ==
    IF Failed(c) THEN c
    ELSE LET func_idx == c.function_indices_[function.name]
             c1 == [c EXCEPT !.bytecode_.functions[func_idx + 1].offset =
                                 current_offset(c.bytecode_)]
             c2 == declare_parameters(enter_scope(c1), function.parameters)
             c3 == visit_expr(c2, function.body)
             c4 == IF needs_implicit_return(c3.bytecode_)
                   THEN c_emit0(c3, "RETURN") ELSE c3
             c5 == IF Failed(c4) THEN c4
                   ELSE [c4 EXCEPT !.bytecode_.functions[func_idx + 1].local_count =
                                        Last(c4.scopes_).local_count]
         IN exit_scope(c5)

RECURSIVE compile_functions(_, _)
compile_functions(c, functions) ==
    IF functions = <<>> THEN c
    ELSE LET c1 == compile_function(c, Head(functions))
         IN IF Failed(c1) THEN c1 ELSE compile_functions(c1, Tail(functions))

\* Compiler::compile: the compiler after the final HALT; .bytecode_ is the
\* result unless .error is set
compile(program) ==
    c_emit0(compile_functions(collect_functions(NewCompiler, program), program), "HALT")

(***************************************************************************)
(* VM arithmetic, comparison and logical helpers (vm.cpp, value.cpp).      *)
(* Each returns [error, value]: error is the message of the exception      *)
(* thrown ("" when none), value the result.                                *)
(***************************************************************************)
Ok(v) == [error |-> "", value |-> v]
Err(msg) == [error |-> msg, value |-> IntV(0)]

IsNumber(v) == v.type \in {"Int", "Float"}
\* the operand as a double
AsFloat(v) == IF v.type = "Int" THEN IntToFloat(v.int_val) ELSE v

FAdd(x, y) == FloatV(FNum(x) * FDen(y) + FNum(y) * FDen(x), FDen(x) * FDen(y))
FSub(x, y) == FloatV(FNum(x) * FDen(y) - FNum(y) * FDen(x), FDen(x) * FDen(y))
FMul(x, y) == FloatV(FNum(x) * FNum(y), FDen(x) * FDen(y))
FDiv(x, y) == FloatV(FNum(x) * FDen(y), FDen(x) * FNum(y))
FLess(x, y) == FNum(x) * FDen(y) < FNum(y) * FDen(x)

\* int64_t / and %: truncation toward zero, remainder with the dividend's sign
TruncDiv(a, b) ==
    LET q == Abs(a) \div Abs(b)
    IN IF (a < 0) = (b < 0) THEN q ELSE -q
TruncMod(a, b) == a - b * TruncDiv(a, b)

\* VM::binary_add / binary_sub / binary_mul
binary_arith(op, a, b) ==
    IF a.type = "Int" /\ b.type = "Int"
    THEN Ok(IntV(CASE op = "ADD" -> a.int_val + b.int_val
                   [] op = "SUB" -> a.int_val - b.int_val
                   [] op = "MUL" -> a.int_val * b.int_val))
    ELSE IF IsNumber(a) /\ IsNumber(b)
    THEN Ok(CASE op = "ADD" -> FAdd(AsFloat(a), AsFloat(b))
              [] op = "SUB" -> FSub(AsFloat(a), AsFloat(b))
              [] op = "MUL" -> FMul(AsFloat(a), AsFloat(b)))
    ELSE Err(CASE op = "ADD" -> "Cannot add"
               [] op = "SUB" -> "Cannot subtract"
               [] op = "MUL" -> "Cannot multiply")

\* VM::binary_div
binary_div_float_unchecked(a, b) ==
    IF a.type = "Int" /\ b.type = "Int"
    THEN IF b.int_val = 0 THEN Err("Division by zero")
         ELSE Ok(IntV(TruncDiv(a.int_val, b.int_val)))
    ELSE IF IsNumber(a) /\ IsNumber(b)
    THEN IF FNum(AsFloat(b)) = 0 THEN Ok(AsFloat(a))
         ELSE Ok(FDiv(AsFloat(a), AsFloat(b)))
    ELSE Err("Cannot divide")
binary_div(a, b) ==
    IF a.type = "Int" /\ b.type = "Int"
    THEN IF b.int_val = 0 THEN Err("Division by zero")
         ELSE Ok(IntV(TruncDiv(a.int_val, b.int_val)))
    ELSE IF IsNumber(a) /\ IsNumber(b)
    THEN IF FNum(AsFloat(b)) = 0 THEN Err("Division by zero")
         ELSE Ok(FDiv(AsFloat(a), AsFloat(b)))
    ELSE Err("Cannot divide")

\* VM::binary_mod
binary_mod(a, b) ==
    IF a.type = "Int" /\ b.type = "Int"
    THEN IF b.int_val = 0 THEN Err("Modulo by zero")
         ELSE Ok(IntV(TruncMod(a.int_val, b.int_val)))
    ELSE Err("Modulo requires two integers")

\* std::string operator< on the strings the input sets use, which this list
\* holds in lexicographic order
KnownStrings == <<"", "a", "ab", "b", "s", "x">>
StringRank(s) == CHOOSE i \in 1..Len(KnownStrings) : KnownStrings[i] = s

\* Value::operator<
ValueLess(a, b) ==
    IF a.type # b.type THEN Err("Cannot compare")
    ELSE CASE a.type = "Int" -> Ok(BoolV(a.int_val < b.int_val))
           [] a.type = "Float" -> Ok(BoolV(FLess(a, b)))
           [] a.type = "String" ->
                Ok(BoolV(StringRank(a.string_val) < StringRank(b.string_val)))
           [] OTHER -> Err("Type does not support ordering comparison")

NotResult(r) == IF r.error # "" THEN r ELSE Ok(BoolV(~r.value.bool_val))

\* the binary_* function the handler of opcode `op` calls
BinaryOps == {"ADD", "SUB", "MUL", "DIV", "MOD", "EQ", "NE", "LT", "GT", "LE", "GE",
              "AND", "OR"}
binary_op(op, a, b) ==
    CASE op \in {"ADD", "SUB", "MUL"} -> binary_arith(op, a, b)
      [] op = "DIV" -> binary_div(a, b)
      [] op = "MOD" -> binary_mod(a, b)
      [] op = "EQ" -> Ok(BoolV(ValueEq(a, b)))
      [] op = "NE" -> Ok(BoolV(~ValueEq(a, b)))
      [] op = "LT" -> ValueLess(a, b)
      [] op = "GT" -> ValueLess(b, a)
      [] op = "LE" -> NotResult(ValueLess(b, a))
      [] op = "GE" -> NotResult(ValueLess(a, b))
      [] op = "AND" -> Ok(BoolV(is_truthy(a) /\ is_truthy(b)))
      [] op = "OR" -> Ok(BoolV(is_truthy(a) \/ is_truthy(b)))

\* VM::unary_not
unary_not_identity(a) == BoolV(is_truthy(a))
unary_not(a) == BoolV(~is_truthy(a))

\* VM::unary_not / unary_negate / unary_positive
UnaryOps == {"NOT", "NEGATE", "POSITIVE"}
unary_op(op, a) ==
    CASE op = "NOT" -> Ok(unary_not(a))
      [] op = "NEGATE" ->
            IF a.type = "Int" THEN Ok(IntV(-a.int_val))
            ELSE IF a.type = "Float" THEN Ok(FloatV(-FNum(a), FDen(a)))
            ELSE Err("Cannot negate")
      [] op = "POSITIVE" ->
            IF IsNumber(a) THEN Ok(a) ELSE Err("Cannot apply unary +")

\* VM::call_builtin_method for List and Tuple receivers, String length /
\* is_empty and Int abs
ListMethods == {"length", "append", "head", "tail", "is_empty", "reverse", "concat"}
call_list_method(method, object, args) ==
    LET list == object.list_val
    IN CASE method = "length" ->
              IF args # <<>> THEN Err("List.length() takes no arguments")
              ELSE Ok(IntV(Len(list)))
         [] method = "append" ->
              IF Len(args) # 1 THEN Err("List.append() takes exactly 1 argument")
              ELSE Ok(ListV(Append(list, args[1])))
         [] method = "head" ->
              IF args # <<>> THEN Err("List.head() takes no arguments")
              ELSE IF list = <<>> THEN Err("List.head() on empty list")
              ELSE Ok(list[1])
         [] method = "tail" ->
              IF args # <<>> THEN Err("List.tail() takes no arguments")
              ELSE IF list = <<>> THEN Err("List.tail() on empty list")
              ELSE Ok(ListV(Tail(list)))
         [] method = "is_empty" ->
              IF args # <<>> THEN Err("List.is_empty() takes no arguments")
              ELSE Ok(BoolV(list = <<>>))
         [] method = "reverse" ->
              IF args # <<>> THEN Err("List.reverse() takes no arguments")
              ELSE Ok(ListV(Reverse(list)))
         [] method = "concat" ->
              IF Len(args) # 1 \/ args[1].type # "List"
              THEN Err("List.concat() takes 1 list argument")
              ELSE Ok(ListV(list \o args[1].list_val))
         [] OTHER -> Err("Unknown method on List")

call_builtin_method(method, object, args) ==
    CASE object.type = "List" -> call_list_method(method, object, args)
      [] object.type = "Tuple" ->
            IF method = "length"
            THEN IF args # <<>> THEN Err("Tuple.length() takes no arguments")
                 ELSE Ok(IntV(Len(object.tuple_val)))
            ELSE Err("Unknown method on Tuple")
      [] object.type = "String" ->
            IF method = "is_empty"
            THEN IF args # <<>> THEN Err("String.is_empty() takes no arguments")
                 ELSE Ok(BoolV(object.string_val = ""))
            ELSE Err("Unknown method on String")
      [] object.type = "Int" ->
            IF method = "abs"
            THEN IF args # <<>> THEN Err("Int.abs() takes no arguments")
                 ELSE Ok(IntV(Abs(object.int_val)))
            ELSE Err("Unknown method on Int")
      [] OTHER -> Err("Cannot call method")

(***************************************************************************)
(* VM state access (vm.hpp / vm.cpp)                                       *)
(***************************************************************************)
NoError == [message |-> "", args |-> <<>>]
NoValue == [type |-> "None"]
NoCall == [function_name |-> "", args |-> <<>>]
NoEarlier == [calls |-> 0, stack |-> 0, frames |-> 0]
\* call_function calls made on one VM
MaxCalls == 2

\* CallFrame(function_index, ip, stack_base, local_count): locals start as Int 0
\* and the first Len(args) of them are then overwritten by the arguments
CallFrame_args_as_popped(func_idx, offset, base, local_count, args) ==
    [function_index |-> func_idx, instruction_pointer |-> offset, stack_base |-> base,
     locals |-> [i \in 1..local_count |->
                    IF i <= Len(args) THEN Reverse(args)[i] ELSE IntV(0)]]
CallFrame(func_idx, offset, base, local_count, args) ==
    [function_index |-> func_idx, instruction_pointer |-> offset, stack_base |-> base,
     locals |-> [i \in 1..local_count |-> IF i <= Len(args) THEN args[i] ELSE IntV(0)]]

Code == bytecode_.instructions
current_frame == Last(call_stack_)
ip == current_frame.instruction_pointer
code_at(i) == Code[i + 1]
Running == vm_state = "running" /\ call_stack_ # <<>>
\* the opcode run() fetches next
CurOp == IF Running /\ ip < Len(Code) THEN OpName(code_at(ip)) ELSE "NONE"

\* VM::read_uint16 at offset `at`: low byte first
read_uint16_bigendian(at) == 256 * code_at(at) + code_at(at + 1)
read_uint16(at) == code_at(at) + 256 * code_at(at + 1)

\* call_stack_ with the current frame's instruction pointer set
WithIp(new_ip) == [call_stack_ EXCEPT ![Len(call_stack_)].instruction_pointer = new_ip]

\* the handler ends with `break`: run() goes on with the next instruction
Continue(st, cs) ==
    /\ stack_' = st
    /\ call_stack_' = cs
    /\ UNCHANGED <<source, bytecode_, vm_state, vm_error, vm_result, vm_call, vm_earlier>>
    /\ UNCHANGED notVmVars
\* the handler throws std::runtime_error: it leaves run() and call_function
Raise(st, cs, msg, args) ==
    /\ stack_' = st
    /\ call_stack_' = cs
    /\ vm_state' = "error"
    /\ vm_error' = [message |-> msg, args |-> args]
    /\ UNCHANGED <<source, bytecode_, vm_result, vm_call, vm_earlier>>
    /\ UNCHANGED notVmVars
\* run() returns to call_function
LeaveRun(st, cs) ==
    /\ stack_' = st
    /\ call_stack_' = cs
    /\ vm_state' = "finishing"
    /\ UNCHANGED <<source, bytecode_, vm_error, vm_result, vm_call, vm_earlier>>
    /\ UNCHANGED notVmVars

\* n successive pop() calls: the values popped, top first, and what is left;
\* underflow when fewer than n values are there (the stack is then empty)
CanPop(n) == Len(stack_) >= n
Popped(n) == Reverse(TakeLast(stack_, n))
AfterPop(n) == IF CanPop(n) THEN DropLast(stack_, n) ELSE <<>>

(***************************************************************************)
(* VM::run, one action per opcode handler                                  *)
(***************************************************************************)
OpConstant ==
    /\ CurOp = "CONSTANT"
    /\ LET idx == read_uint16(ip + 1)
       IN /\ idx < Len(bytecode_.constants)
          /\ Continue(Append(stack_, bytecode_.constants[idx + 1]), WithIp(ip + 3))

OpTrue == CurOp = "TRUE" /\ Continue(Append(stack_, BoolV(TRUE)), WithIp(ip + 1))

OpFalse == CurOp = "FALSE" /\ Continue(Append(stack_, BoolV(FALSE)), WithIp(ip + 1))

\* ADD SUB MUL DIV MOD EQ NE LT GT LE GE AND OR: b = pop(), a = pop(), push(f(a, b))
OpBinary ==
    /\ CurOp \in BinaryOps
    /\ IF ~CanPop(2) THEN Raise(<<>>, WithIp(ip + 1), "Stack underflow", <<>>)
       ELSE LET b == stack_[Len(stack_)]
                a == stack_[Len(stack_) - 1]
                r == binary_op(CurOp, a, b)
            IN IF r.error # "" THEN Raise(AfterPop(2), WithIp(ip + 1), r.error, <<>>)
               ELSE Continue(Append(AfterPop(2), r.value), WithIp(ip + 1))

\* NOT NEGATE POSITIVE: a = pop(), push(f(a))
OpUnary ==
    /\ CurOp \in UnaryOps
    /\ IF ~CanPop(1) THEN Raise(<<>>, WithIp(ip + 1), "Stack underflow", <<>>)
       ELSE LET r == unary_op(CurOp, Last(stack_))
            IN IF r.error # "" THEN Raise(AfterPop(1), WithIp(ip + 1), r.error, <<>>)
               ELSE Continue(Append(AfterPop(1), r.value), WithIp(ip + 1))

OpPop ==
    /\ CurOp = "POP"
    /\ IF ~CanPop(1) THEN Raise(<<>>, WithIp(ip + 1), "Stack underflow", <<>>)
       ELSE Continue(AfterPop(1), WithIp(ip + 1))

OpDup ==
    /\ CurOp = "DUP"
    /\ IF ~CanPop(1) THEN Raise(<<>>, WithIp(ip + 1), "Stack underflow", <<>>)
       ELSE Continue(Append(stack_, Last(stack_)), WithIp(ip + 1))

\* push(current_frame().locals[idx]): the local keeps its value
LoadLocalMovingOut(locals, idx) == [locals EXCEPT ![idx + 1] = IntV(0)]
LoadLocalKeeps(locals, idx) == locals
OpLoadLocal ==
    /\ CurOp = "LOAD_LOCAL"
    /\ LET idx == read_uint16(ip + 1)
           cs == WithIp(ip + 3)
       IN /\ idx < Len(current_frame.locals)
          /\ Continue(Append(stack_, current_frame.locals[idx + 1]),
                      [cs EXCEPT ![Len(cs)].locals = LoadLocalKeeps(@, idx)])

\* current_frame().locals[idx] = peek(): the value stays on the stack
OpStoreLocal_per_function ==
    /\ CurOp = "STORE_LOCAL"
    /\ LET idx == read_uint16(ip + 1)
           cs == WithIp(ip + 3)
       IN /\ idx < Len(current_frame.locals)
          /\ IF ~CanPop(1) THEN Raise(stack_, cs, "Stack underflow", <<>>)
             ELSE Continue(stack_,
                    [i \in 1..Len(cs) |->
                        IF cs[i].function_index = current_frame.function_index
                        THEN [cs[i] EXCEPT !.locals[idx + 1] = Last(stack_)]
                        ELSE cs[i]])
OpStoreLocal ==
    /\ CurOp = "STORE_LOCAL"
    /\ LET idx == read_uint16(ip + 1)
           cs == WithIp(ip + 3)
       IN /\ idx < Len(current_frame.locals)
          /\ IF ~CanPop(1) THEN Raise(stack_, cs, "Stack underflow", <<>>)
             ELSE Continue(stack_, [cs EXCEPT ![Len(cs)].locals[idx + 1] = Last(stack_)])

OpLoadGlobal ==
    /\ CurOp = "LOAD_GLOBAL"
    /\ Continue(Append(stack_, IntV(read_uint16(ip + 1))), WithIp(ip + 3))

OpCall ==
    /\ CurOp = "CALL"
    /\ LET func_idx == read_uint16(ip + 1)
           arg_count == code_at(ip + 3)
           cs == WithIp(ip + 4)
       IN IF func_idx >= Len(bytecode_.functions)
          THEN Raise(stack_, cs, "Invalid function index", <<func_idx>>)
          ELSE LET func_info == bytecode_.functions[func_idx + 1]
               IN IF arg_count # func_info.param_count
                  THEN Raise(stack_, cs, "Function expects arguments",
                             <<func_info.param_count, arg_count>>)
                  ELSE IF ~CanPop(arg_count)
                  THEN Raise(<<>>, cs, "Stack underflow", <<>>)
                  ELSE /\ func_info.local_count >= arg_count
                       /\ Continue(AfterPop(arg_count),
                                   Append(cs, CallFrame(func_idx, func_info.offset,
                                                        Len(stack_) - arg_count,
                                                        func_info.local_count,
                                                        TakeLast(stack_, arg_count))))

\* call_stack_.pop_back(); the operand stack is left as the callee left it
OpReturn ==
    /\ CurOp = "RETURN"
    /\ IF Len(call_stack_) = 1 THEN LeaveRun(stack_, <<>>)
       ELSE Continue(stack_, Front(call_stack_))

\* ip() = ip() + static_cast<int16_t>(read_uint16())
JumpTarget(after, operand) == after + I16(operand)
OpJump ==
    /\ CurOp = "JUMP"
    /\ LET target == JumpTarget(ip + 3, read_uint16(ip + 1))
       IN target >= 0 /\ Continue(stack_, WithIp(target))

OpJumpIfFalse ==
    /\ CurOp = "JUMP_IF_FALSE"
    /\ LET target == JumpTarget(ip + 3, read_uint16(ip + 1))
       IN IF ~CanPop(1) THEN Raise(stack_, WithIp(ip + 3), "Stack underflow", <<>>)
          ELSE IF ~is_truthy(Last(stack_))
          THEN target >= 0 /\ Continue(stack_, WithIp(target))
          ELSE Continue(stack_, WithIp(ip + 3))

OpJumpIfTrue ==
    /\ CurOp = "JUMP_IF_TRUE"
    /\ LET target == JumpTarget(ip + 3, read_uint16(ip + 1))
       IN IF ~CanPop(1) THEN Raise(stack_, WithIp(ip + 3), "Stack underflow", <<>>)
          ELSE IF is_truthy(Last(stack_))
          THEN target >= 0 /\ Continue(stack_, WithIp(target))
          ELSE Continue(stack_, WithIp(ip + 3))

OpBuildList ==
    /\ CurOp = "BUILD_LIST"
    /\ LET count == read_uint16(ip + 1)
       IN IF ~CanPop(count) THEN Raise(<<>>, WithIp(ip + 3), "Stack underflow", <<>>)
          ELSE Continue(Append(AfterPop(count), ListV(TakeLast(stack_, count))),
                        WithIp(ip + 3))

OpBuildTuple ==
    /\ CurOp = "BUILD_TUPLE"
    /\ LET count == read_uint16(ip + 1)
       IN IF ~CanPop(count) THEN Raise(<<>>, WithIp(ip + 3), "Stack underflow", <<>>)
          ELSE Continue(Append(AfterPop(count), TupleV(TakeLast(stack_, count))),
                        WithIp(ip + 3))

\* idx < 0 || static_cast<size_t>(idx) >= size
index_out_of_bounds_at_zero(idx, size) == idx <= 0 \/ idx >= size
index_out_of_bounds(idx, size) == idx < 0 \/ idx >= size

\* index = pop(), collection = pop()
OpIndex ==
    /\ CurOp = "INDEX"
    /\ LET cs == WithIp(ip + 1)
           index == stack_[Len(stack_)]
           collection == stack_[Len(stack_) - 1]
           rest == AfterPop(2)
       IN IF ~CanPop(2) THEN Raise(<<>>, cs, "Stack underflow", <<>>)
          ELSE IF index.type # "Int" THEN Raise(rest, cs, "Index must be Int", <<>>)
          ELSE LET idx == index.int_val
               IN CASE collection.type = "List" ->
                         IF index_out_of_bounds(idx, Len(collection.list_val))
                         THEN Raise(rest, cs, "List index out of bounds",
                                    <<idx, Len(collection.list_val)>>)
                         ELSE Continue(Append(rest, collection.list_val[idx + 1]), cs)
                    [] collection.type = "Tuple" ->
                         IF index_out_of_bounds(idx, Len(collection.tuple_val))
                         THEN Raise(rest, cs, "Tuple index out of bounds",
                                    <<idx, Len(collection.tuple_val)>>)
                         ELSE Continue(Append(rest, collection.tuple_val[idx + 1]), cs)
                    [] OTHER -> Raise(rest, cs, "Cannot index into", <<>>)

OpCallMethod ==
    /\ CurOp = "CALL_METHOD"
    /\ LET name_idx == read_uint16(ip + 1)
           arg_count == code_at(ip + 3)
           cs == WithIp(ip + 4)
       IN IF name_idx >= Len(bytecode_.constants)
          THEN Raise(stack_, cs, "Invalid constant index for method name", <<name_idx>>)
          ELSE LET name_val == bytecode_.constants[name_idx + 1]
               IN IF name_val.type # "String"
                  THEN Raise(stack_, cs, "Method name must be a string", <<>>)
                  ELSE IF ~CanPop(arg_count + 1)
                  THEN Raise(<<>>, cs, "Stack underflow", <<>>)
                  ELSE LET args == TakeLast(stack_, arg_count)
                           receiver == stack_[Len(stack_) - arg_count]
                           rest == AfterPop(arg_count + 1)
                           r == call_builtin_method(name_val.string_val, receiver, args)
                       IN IF r.error # "" THEN Raise(rest, cs, r.error, <<>>)
                          ELSE Continue(Append(rest, r.value), cs)

\* HALT: return from run()
OpHalt == CurOp = "HALT" /\ LeaveRun(stack_, WithIp(ip + 1))

\* default: a byte that is no OpCode
OpUnknown ==
    /\ CurOp = "UNKNOWN"
    /\ Raise(stack_, WithIp(ip + 1), "Unknown opcode", <<code_at(ip)>>)

(***************************************************************************)
(* VM::call_function                                                       *)
(***************************************************************************)
\* up to the call of run(): clear both stacks, look the function up, check
\* the argument count, push the initial frame
CallFunction_without_clear(function_name, args) ==
    /\ vm_state \in {"idle", "done", "error"}
    /\ vm_earlier.calls < MaxCalls
    /\ LET func_idx == find_function(bytecode_, function_name)
       IN /\ vm_call' = [function_name |-> function_name, args |-> args]
          /\ vm_earlier' = [calls |-> vm_earlier.calls + 1, stack |-> Len(stack_),
                            frames |-> Len(call_stack_)]
          /\ vm_result' = NoValue
          /\ stack_' = stack_
          /\ UNCHANGED <<source, bytecode_>>
          /\ UNCHANGED notVmVars
          /\ IF func_idx < 0
             THEN /\ vm_state' = "error"
                  /\ vm_error' = [message |-> "Function not found", args |-> <<>>]
                  /\ call_stack_' = call_stack_
             ELSE LET func_info == bytecode_.functions[func_idx + 1]
                  IN IF Len(args) # func_info.param_count
                     THEN /\ vm_state' = "error"
                          /\ vm_error' = [message |-> "Function expects arguments",
                                          args |-> <<func_info.param_count, Len(args)>>]
                          /\ call_stack_' = call_stack_
                     ELSE /\ func_info.local_count >= Len(args)
                          /\ vm_state' = "running"
                          /\ vm_error' = NoError
                          /\ call_stack_' =
                                Append(call_stack_,
                                       CallFrame(func_idx, func_info.offset, 0,
                                                 func_info.local_count, args))
CallFunction(function_name, args) ==
    /\ vm_state \in {"idle", "done", "error"}
    /\ vm_earlier.calls < MaxCalls
    /\ LET func_idx == find_function(bytecode_, function_name)
       IN /\ vm_call' = [function_name |-> function_name, args |-> args]
          /\ vm_earlier' = [calls |-> vm_earlier.calls + 1, stack |-> Len(stack_),
                            frames |-> Len(call_stack_)]
          /\ vm_result' = NoValue
          /\ stack_' = <<>>
          /\ UNCHANGED <<source, bytecode_>>
          /\ UNCHANGED notVmVars
          /\ IF func_idx < 0
             THEN /\ vm_state' = "error"
                  /\ vm_error' = [message |-> "Function not found", args |-> <<>>]
                  /\ call_stack_' = <<>>
             ELSE LET func_info == bytecode_.functions[func_idx + 1]
                  IN IF Len(args) # func_info.param_count
                     THEN /\ vm_state' = "error"
                          /\ vm_error' = [message |-> "Function expects arguments",
                                          args |-> <<func_info.param_count, Len(args)>>]
                          /\ call_stack_' = <<>>
                     ELSE /\ func_info.local_count >= Len(args)
                          /\ vm_state' = "running"
                          /\ vm_error' = NoError
                          /\ call_stack_' = <<CallFrame(func_idx, func_info.offset, 0,
                                                        func_info.local_count, args)>>

\* after run() has returned: the result is popped off the operand stack
CallFunctionFinish ==
    /\ vm_state = "finishing"
    /\ UNCHANGED <<source, bytecode_, call_stack_, vm_call, vm_earlier>>
    /\ UNCHANGED notVmVars
    /\ IF stack_ = <<>>
       THEN /\ vm_state' = "error"
            /\ vm_error' = [message |-> "Function returned without a value",
                            args |-> <<>>]
            /\ UNCHANGED <<stack_, vm_result>>
       ELSE /\ vm_state' = "done"
            /\ vm_result' = Last(stack_)
            /\ stack_' = Front(stack_)
            /\ UNCHANGED vm_error

(***************************************************************************)
(* Bounded inputs of the backend: programs given to Compiler::compile and  *)
(* assembled listings given to the VM directly.                            *)
(***************************************************************************)
MaxPatternLen == 2
MaxCalleeStmts == 1
MaxParams == 2
MaxListLen == 2
MaxEntryArgs == 1

\* all sequences over S of length lo..hi
SeqsOf(S, lo, hi) == UNION {[1..n -> S] : n \in lo..hi}

IntType == NamedType("Int")
PatternNames == <<"x", "y", "z", "w">>
ParamNames == <<"a", "b", "c", "d">>
PatternValues == {10, 20}

\* x1 + x2 + ... + xn
RECURSIVE SumOfNames(_)
SumOfNames(n) ==
    IF n = 1 THEN Ident(PatternNames[1])
    ELSE Binary("Add", SumOfNames(n - 1), Ident(PatternNames[n]))

\* function main() returns Int { let (x1, .., xn) = (v1, .., vn)  return x1 + .. + xn }
DestructureProgram(vals) ==
    << FunctionDef("main", <<>>, IntType,
         << Let(TuplePat([i \in 1..Len(vals) |-> IdentPat(PatternNames[i])]), <<>>,
                TupleE([i \in 1..Len(vals) |-> IntLit(vals[i])])),
            Return(SumOfNames(Len(vals))) >>) >>
DestructureSources ==
    {[name |-> "destructure", program |-> DestructureProgram(vals)] :
        vals \in SeqsOf(PatternValues, 1, MaxPatternLen)}

\* statements and return values a callee body over parameter a is built from
IfPositive(then_value, else_value) ==
    If(Binary("Gt", Ident("a"), IntLit(0)),
       Block(<<ExprStmt(then_value)>>), <<Block(<<ExprStmt(else_value)>>)>>)
CalleeStmts ==
    { Let(IdentPat("t"), <<>>, Ident("a")),
      ExprStmt(Ident("a")),
      ExprStmt(IfPositive(IntLit(1), IntLit(2))) }
CalleeResults ==
    { Ident("a"), Ident("t"), Binary("Add", Ident("a"), IntLit(1)),
      IfPositive(Ident("a"), Unary("Neg", Ident("a"))) }
CalleeBodies ==
    {prefix \o <<Return(result)>> :
        prefix \in SeqsOf(CalleeStmts, 0, MaxCalleeStmts), result \in CalleeResults}

\* function f(a, ..) returns Int { body }
\* function main() returns Int { return 10 - f(3, ..) }
CallProgram(body, nparams) ==
    << FunctionDef("f", [i \in 1..nparams |-> Parameter(ParamNames[i], IntType)],
                   IntType, body),
       FunctionDef("main", <<>>, IntType,
         << Return(Binary("Sub", IntLit(10),
                          Call(Ident("f"), [i \in 1..nparams |-> IntLit(2 + i)]))) >>) >>
CallSources ==
    {[name |-> "call", program |-> CallProgram(body, nparams)] :
        body \in CalleeBodies, nparams \in 1..MaxParams}

\* conditions of every literal kind the compiler accepts, truthy and falsy
ConditionExprs ==
    { BoolLit(TRUE), BoolLit(FALSE), IntLit(0), IntLit(7), FloatLit(0, 1),
      FloatLit(1, 2), StringLit(""), StringLit("a"), ListE(<<>>), ListE(<<IntLit(0)>>),
      TupleE(<<>>), TupleE(<<BoolLit(FALSE)>>) }
\* function main() returns Int { return if cond { 1 } else { 2 } }
IfProgramOf(cond, then_value, else_value) ==
    << FunctionDef("main", <<>>, IntType,
         << Return(If(cond, Block(<<ExprStmt(then_value)>>),
                      <<Block(<<ExprStmt(else_value)>>)>>)) >>) >>
IfProgram(cond) == IfProgramOf(cond, IntLit(1), IntLit(2))
\* function main() returns Bool { return !cond }
NotProgram(cond) ==
    << FunctionDef("main", <<>>, NamedType("Bool"), <<Return(Unary("Not", cond))>>) >>
IfSources ==
    {[name |-> "if", program |-> IfProgram(cond)] : cond \in ConditionExprs}
    \cup {[name |-> "not", program |-> NotProgram(cond)] : cond \in ConditionExprs}

\* function f(a) returns Int { if a > 0 { then } else { else } }  (else optional)
\* function g(a) returns Int { return 100 }
BranchBodies ==
    { <<ExprStmt(IntLit(1))>>, <<Return(IntLit(2))>>,
      <<Let(IdentPat("t"), <<>>, IntLit(3))>>,
      <<Let(IdentPat("t"), <<>>, IntLit(3)), ExprStmt(Ident("t"))>>,
      <<ExprStmt(IntLit(4)), ExprStmt(IntLit(5))>>, <<>> }
TailIfProgram(then_body, else_branch) ==
    << FunctionDef("f", <<Parameter("a", IntType)>>, IntType,
         << ExprStmt(If(Binary("Gt", Ident("a"), IntLit(0)), Block(then_body),
                        else_branch)) >>),
       FunctionDef("g", <<Parameter("a", IntType)>>, IntType, <<Return(IntLit(100))>>) >>
TailIfSources ==
    {[name |-> "tail_if", program |-> TailIfProgram(then_body, else_branch)] :
        then_body \in BranchBodies,
        else_branch \in {<<>>} \cup {<<Block(else_body)>> : else_body \in BranchBodies}}

\* a call whose argument count is the byte value of the RETURN opcode:
\* function f() returns Int { h(1, 2, .., n) }
\* function h(p1: Int, .., pn: Int) returns Int { return 100 }
WideArity == OpCode("RETURN")
WideCallProgram(result) ==
    << FunctionDef("f", <<>>, IntType,
         << ExprStmt(Call(Ident("h"), [i \in 1..WideArity |-> IntLit(i)])) >>),
       FunctionDef("h", [i \in 1..WideArity |-> Parameter("p" \o ToString(i), IntType)],
                   IntType, <<Return(result)>>) >>
WideCallSource == [name |-> "wide_call", program |-> WideCallProgram(IntLit(100))]
\* the same with h returning its first parameter
WideLoadSource == [name |-> "wide_load", program |-> WideCallProgram(Ident("p1"))]

\* function main() returns Int { let x = outer  { let x = inner  x }  return x }
\* and the same with the inner block as the then branch of `if true`
ShadowOuterValues == {IntLit(1), IntLit(2)}
ShadowInnerValues == {IntLit(2), StringLit("s")}
ShadowBlock(inner) == Block(<<Let(IdentPat("x"), <<>>, inner), ExprStmt(Ident("x"))>>)
ShadowProgram(outer, inner_stmt) ==
    << FunctionDef("main", <<>>, IntType,
         << Let(IdentPat("x"), <<>>, outer), ExprStmt(inner_stmt),
            Return(Ident("x")) >>) >>
ShadowSources ==
    {[name |-> "shadow", program |-> ShadowProgram(outer, inner_stmt)] :
        outer \in ShadowOuterValues,
        inner_stmt \in {ShadowBlock(inner) : inner \in ShadowInnerValues}
                       \cup {If(BoolLit(TRUE), ShadowBlock(inner), <<>>) :
                                 inner \in ShadowInnerValues}}

\* function main() returns T { body }, the body with and without a return
ResultTypes == {IntType, NamedType("Bool"), NamedType("String")}
ResultBodies ==
    { <<>>, <<Return(IntLit(1))>>, <<Return(StringLit("s"))>>, <<Return(BoolLit(TRUE))>>,
      <<ExprStmt(IntLit(1))>>, <<ExprStmt(StringLit("s"))>>,
      <<Let(IdentPat("x"), <<>>, IntLit(1))>>, <<Let(IdentPat("x"), <<>>, StringLit("s"))>>,
      <<ExprStmt(If(BoolLit(TRUE), Block(<<ExprStmt(IntLit(1))>>), <<>>))>>,
      <<ExprStmt(If(BoolLit(FALSE), Block(<<ExprStmt(IntLit(1))>>), <<>>))>> }
ResultSources ==
    {[name |-> "result", program |-> <<FunctionDef("main", <<>>, type, body)>>] :
        type \in ResultTypes, body \in ResultBodies}

\* function main() returns T { return l op r }, for every binary operator
\* the VM model has a handler for and literal operands of every primitive type
OperatorNames ==
    {"Add", "Sub", "Mul", "Div", "Mod", "Eq", "Ne", "Lt", "Gt", "Le", "Ge", "And", "Or"}
OperatorOperands == {IntLit(7), FloatLit(5, 2), StringLit("s"), BoolLit(TRUE)}
OperatorResultTypes == {IntType, NamedType("Float"), NamedType("Bool")}
OperatorSources ==
    {[name |-> "operator",
      program |-> <<FunctionDef("main", <<>>, type, <<Return(Binary(op, l, r))>>)>>] :
        type \in OperatorResultTypes, op \in OperatorNames,
        l \in OperatorOperands, r \in OperatorOperands}

\* function main() returns List[Int] { let xs = [..]  let ys = xs.m(args)  return xs }
ListElems == {1, 2}
ListMethodCalls ==
    { <<"append", <<IntLit(3)>>>>, <<"tail", <<>>>>, <<"reverse", <<>>>>,
      <<"concat", <<ListE(<<IntLit(3)>>)>>>>, <<"head", <<>>>>, <<"length", <<>>>>,
      <<"is_empty", <<>>>> }
ListProgram(elems, method, args) ==
    << FunctionDef("main", <<>>, ListTypeAnn(IntType),
         << Let(IdentPat("xs"), <<>>, ListE([i \in 1..Len(elems) |-> IntLit(elems[i])])),
            Let(IdentPat("ys"), <<>>, MethodCall(Ident("xs"), method, args)),
            Return(Ident("xs")) >>) >>
ListSources ==
    {[name |-> "list", program |-> ListProgram(elems, m[1], m[2])] :
        elems \in SeqsOf(ListElems, 0, MaxListLen), m \in ListMethodCalls}

\* function main() returns Int { let g = main  return 0 }
FunctionReferenceSource ==
    [name |-> "function_reference",
     program |-> << FunctionDef("main", <<>>, IntType,
                      << Let(IdentPat("g"), <<>>, Ident("main")),
                         Return(IntLit(0)) >>) >>]

\* ---- assembled listings ----
\* one function "main" at offset 0, no parameters, no locals
Listing(constants) ==
    add_function([EmptyBytecode EXCEPT !.constants = constants], "main", 0, 0, 0)
ConditionalJumps == {"JUMP_IF_FALSE", "JUMP_IF_TRUE"}
Jumps == {"JUMP"} \cup ConditionalJumps

\* values of every Value type, truthy and falsy
TruthValues ==
    { BoolV(TRUE), BoolV(FALSE), IntV(0), IntV(-1), FloatV(0, 1), FloatV(1, 2),
      StringV(""), StringV("a"), ListV(<<>>), ListV(<<IntV(0)>>), TupleV(<<>>),
      TupleV(<<BoolV(FALSE)>>), FunctionV(0, "main") }

\*  0: CONSTANT v   3: jump +4 (to 10)   6: CONSTANT 1   9: RETURN
\* 10: CONSTANT 2  13: RETURN
ForwardJumpListing(v, jump) ==
    LET b0 == Listing(<<v, IntV(1), IntV(2)>>)
        b1 == emit16(emit16(b0, "CONSTANT", 0), jump, 4)
        b2 == emit0(emit16(b1, "CONSTANT", 1), "RETURN")
    IN emit0(emit16(b2, "CONSTANT", 2), "RETURN")

\*  0: CONSTANT v   3: JUMP +4 (to 10)   6: CONSTANT 1   9: RETURN
\* 10: jump -7 (to 6)                   13: CONSTANT 2  16: RETURN
BackwardJumpListing(v, jump) ==
    LET b0 == Listing(<<v, IntV(1), IntV(2)>>)
        b1 == emit16(emit16(b0, "CONSTANT", 0), "JUMP", 4)
        b2 == emit0(emit16(b1, "CONSTANT", 1), "RETURN")
        b3 == emit16(b2, jump, U16(-7))
    IN emit0(emit16(b3, "CONSTANT", 2), "RETURN")

\*  0: CONSTANT v   3: NOT   4: RETURN
NotListing(v) == emit0(emit0(emit16(Listing(<<v>>), "CONSTANT", 0), "NOT"), "RETURN")

\*  0: CONSTANT 0   3: HALT
HaltListing == emit0(emit16(Listing(<<IntV(1)>>), "CONSTANT", 0), "HALT")
\*  0: a byte past the last OpCode
UnknownOpcodeListing ==
    [Listing(<<>>) EXCEPT !.instructions = <<Len(OpCodeNames)>>]

\* numeric operands: zero, positive and negative Int, zero and non-zero Float
NumericValues == {IntV(0), IntV(7), IntV(-7), FloatV(0, 1), FloatV(7, 2)}
DivisionOps == {"DIV", "MOD"}
\*  0: CONSTANT a   3: CONSTANT b   6: op   7: RETURN
BinaryListing(op, a, b) ==
    LET b1 == emit16(emit16(Listing(<<a, b>>), "CONSTANT", 0), "CONSTANT", 1)
    IN emit0(emit0(b1, op), "RETURN")

\* lists and tuples of every size up to MaxListLen, element k being Int 10 * k,
\* and the indices from one below to one past the largest of them
IndexedElements(n) == [k \in 1..n |-> IntV(10 * k)]
Indexables ==
    {ListV(IndexedElements(n)) : n \in 0..MaxListLen}
    \cup {TupleV(IndexedElements(n)) : n \in 0..MaxListLen}
Indices == (0 - 1)..(MaxListLen + 1)

ListingSources ==
    {[name |-> "forward_jump", listing |-> ForwardJumpListing(v, j)] :
        v \in TruthValues, j \in Jumps}
    \cup {[name |-> "division", listing |-> BinaryListing(op, a, b)] :
            op \in DivisionOps, a \in NumericValues, b \in NumericValues}
    \cup {[name |-> "index", listing |-> BinaryListing("INDEX", c, IntV(i))] :
            c \in Indexables, i \in Indices}
    \cup {[name |-> "backward_jump", listing |-> BackwardJumpListing(v, j)] :
            v \in TruthValues, j \in Jumps}
    \cup {[name |-> "not", listing |-> NotListing(v)] : v \in TruthValues}
    \cup {[name |-> "halt", listing |-> HaltListing],
          [name |-> "unknown_opcode", listing |-> UnknownOpcodeListing]}

IsListing(src) == "listing" \in DOMAIN src
\* the Bytecode the VM is given
BytecodeOf(src) == IF IsListing(src) THEN src.listing ELSE compile(src.program).bytecode_
Compiles(src) == IsListing(src) \/ ~Failed(compile(src.program))

\* function f(a: Int) returns Int {
\*     let t = a + a
\*     return if a > 0 { f(a - 1) + t } else { 0 }
\* }
\* function main() returns Int { return f(n) }
MaxDepth == 2
RecursiveProgram(n) ==
    << FunctionDef("f", <<Parameter("a", IntType)>>, IntType,
         << Let(IdentPat("t"), <<>>, Binary("Add", Ident("a"), Ident("a"))),
            Return(If(Binary("Gt", Ident("a"), IntLit(0)),
                      Block(<<ExprStmt(Binary("Add",
                                Call(Ident("f"), <<Binary("Sub", Ident("a"), IntLit(1))>>),
                                Ident("t")))>>),
                      <<Block(<<ExprStmt(IntLit(0))>>)>>)) >>),
       FunctionDef("main", <<>>, IntType,
         << Return(Call(Ident("f"), <<IntLit(n)>>)) >>) >>
RecursiveSources ==
    {[name |-> "recursive", program |-> RecursiveProgram(n)] : n \in 1..MaxDepth}
\* the largest jump distance an int16_t operand holds
INT16_MAX == 32767
\* ((1 + 1) + (1 + 1)) + ..: a sum of 2^depth literals, compiled to
\* 2^depth CONSTANT instructions and 2^depth - 1 ADDs
RECURSIVE SumTree(_)
SumTree(depth) ==
    IF depth = 0 THEN IntLit(1)
    ELSE LET half == SumTree(depth - 1) IN Binary("Add", half, half)
SumTreeCodeSize(depth) == 3 * 2^depth + 2^depth - 1
\* the first depth at which the code of the sum no longer fits a jump
LargeDepth ==
    CHOOSE depth \in 1..16 :
        /\ SumTreeCodeSize(depth) >= INT16_MAX
        /\ SumTreeCodeSize(depth - 1) < INT16_MAX
\* function main() returns Int { return if false { 1 + 1 + .. } else { 2 } }
LargeBranchSource ==
    [name |-> "large_branch",
     program |-> IfProgramOf(BoolLit(FALSE), SumTree(LargeDepth), IntLit(2))]
\* function f(a: Int) returns Int { return 10 / a }
\* function main() returns Int { return 1 + f(0) }
NestedErrorSource ==
    [name |-> "nested_error",
     program |->
       << FunctionDef("f", <<Parameter("a", IntType)>>, IntType,
            << Return(Binary("Div", IntLit(10), Ident("a"))) >>),
          FunctionDef("main", <<>>, IntType,
            << Return(Binary("Add", IntLit(1), Call(Ident("f"), <<IntLit(0)>>))) >>) >>]
ProgramSources ==
    DestructureSources \cup CallSources \cup IfSources \cup TailIfSources \cup ListSources
    \cup {FunctionReferenceSource, WideCallSource, WideLoadSource, LargeBranchSource,
          NestedErrorSource}
    \cup ShadowSources \cup ResultSources
    \cup OperatorSources \cup RecursiveSources
\* what the VM can be given: listings, and programs the compiler accepts
Sources == {src \in ProgramSources \cup ListingSources : Compiles(src)}

\* arguments of call_function
EntryNames == {"main", "f", "g"}
EntryArgValues == {IntV(0), IntV(3)}
EntryArgs == SeqsOf(EntryArgValues, 0, MaxEntryArgs)

(***************************************************************************)
(* Semantic types (type_system.hpp / type_system.cpp)                      *)
(***************************************************************************)
PrimitiveType(pk) == [kind |-> "Primitive", primitive_kind |-> pk]
ListType(elem) == [kind |-> "List", element_type |-> elem]
TupleType(elems) == [kind |-> "Tuple", element_types |-> elems]
FunctionType(params, ret) ==
    [kind |-> "Function", param_types |-> params, return_type |-> ret]
TypeVariable(name) == [kind |-> "TypeVariable", name |-> name]
UnknownType == [kind |-> "Unknown"]

\* UnknownType::equals
UnknownType_equals_same_kind(other) == other.kind = "Unknown"
UnknownType_equals(other) == FALSE

\* SemanticType::equals, dispatched on the dynamic type of `this`
RECURSIVE equals(_, _)
equals(this, other) ==
    CASE this.kind = "Primitive" ->
            IF other.kind # "Primitive" THEN FALSE
            ELSE this.primitive_kind = other.primitive_kind
      [] this.kind = "List" ->
            IF other.kind # "List" THEN FALSE
            ELSE equals(this.element_type, other.element_type)
      [] this.kind = "Tuple" ->
            IF other.kind # "Tuple" THEN FALSE
            ELSE IF Len(this.element_types) # Len(other.element_types) THEN FALSE
            ELSE \A i \in 1..Len(this.element_types) :
                    equals(this.element_types[i], other.element_types[i])
      [] this.kind = "Function" ->
            IF other.kind # "Function" THEN FALSE
            ELSE IF Len(this.param_types) # Len(other.param_types) THEN FALSE
            ELSE /\ \A i \in 1..Len(this.param_types) :
                       equals(this.param_types[i], other.param_types[i])
                 /\ equals(this.return_type, other.return_type)
      [] this.kind = "TypeVariable" ->
            IF other.kind # "TypeVariable" THEN FALSE ELSE this.name = other.name
      [] this.kind = "Unknown" -> UnknownType_equals(other)

\* TypeEnvironment::get_builtin, folded into the Named case of
\* TypeChecker::ast_type_to_semantic
BuiltinTypeNames == {"Int", "Float", "String", "Bool"}
RECURSIVE ast_type_to_semantic(_)
ast_type_to_semantic(ast_type) ==
    CASE ast_type.kind = "Named" ->
            IF ast_type.name \in BuiltinTypeNames THEN PrimitiveType(ast_type.name)
            ELSE UnknownType
      [] ast_type.kind = "List" -> ListType(ast_type_to_semantic(ast_type.element_type))
      [] ast_type.kind = "Tuple" ->
            TupleType([i \in 1..Len(ast_type.element_types) |->
                          ast_type_to_semantic(ast_type.element_types[i])])
      [] OTHER -> UnknownType

(***************************************************************************)
(* Symbol table (symbol_table.hpp / symbol_table.cpp).  A SymbolTable is   *)
(* [scopes_, current_]: scopes_ the vector of every Scope ever created,    *)
(* current_ the position in it of the current scope.  A Scope is           *)
(* [kind, symbols, parent]; parent is a position in scopes_, 0 for nullptr.*)
(***************************************************************************)
NullScope == 0
Symbol(name, kind, type) ==
    [name |-> name, kind |-> kind, type |-> type, is_mutable |-> FALSE]
\* the result of a lookup that finds nothing (nullptr)
NullSymbol == [name |-> "", kind |-> "Null"]

\* Scope::Scope
Scope(kind, parent) == [kind |-> kind, symbols |-> EmptyMap, parent |-> parent]

\* SymbolTable::SymbolTable
NewSymbolTable == [scopes_ |-> <<Scope("Global", NullScope)>>, current_ |-> 1]

\* SymbolTable::enter_scope
st_enter_scope_under_global(st, kind) ==
    [scopes_ |-> Append(st.scopes_, Scope(kind, 1)), current_ |-> Len(st.scopes_) + 1]
st_enter_scope(st, kind) ==
    [scopes_ |-> Append(st.scopes_, Scope(kind, st.current_)),
     current_ |-> Len(st.scopes_) + 1]

\* SymbolTable::exit_scope: scopes_ keeps the scope that is left
st_exit_scope(st) ==
    IF st.scopes_[st.current_].parent # NullScope
    THEN [st EXCEPT !.current_ = st.scopes_[st.current_].parent]
    ELSE st

\* Scope::exists_local / lookup_local
exists_local(scope, name) == name \in DOMAIN scope.symbols
lookup_local(scope, name) ==
    IF name \in DOMAIN scope.symbols THEN scope.symbols[name] ELSE NullSymbol

\* Scope::declare behind SymbolTable::declare: [st, success]
Scope_declare_overwriting(st, name, kind, type) ==
    [st |-> [st EXCEPT !.scopes_[st.current_].symbols =
                 MapPut(@, name, Symbol(name, kind, type))],
     success |-> ~exists_local(st.scopes_[st.current_], name)]
st_declare(st, name, kind, type) ==
    IF exists_local(st.scopes_[st.current_], name)
    THEN [st |-> st, success |-> FALSE]
    ELSE [st |-> [st EXCEPT !.scopes_[st.current_].symbols =
                      MapPut(@, name, Symbol(name, kind, type))],
          success |-> TRUE]

\* SymbolTable::lookup: the position of the scope the walk from `scope` up
\* the parent pointers stops at, NullScope when it runs off the global scope
RECURSIVE lookup_scope(_, _, _)
lookup_scope(st, scope, name) ==
    IF scope = NullScope THEN NullScope
    ELSE IF exists_local(st.scopes_[scope], name) THEN scope
    ELSE lookup_scope(st, st.scopes_[scope].parent, name)
st_lookup_current_only(st, name) == lookup_local(st.scopes_[st.current_], name)
st_lookup(st, name) ==
    LET scope == lookup_scope(st, st.current_, name)
    IN IF scope = NullScope THEN NullSymbol ELSE st.scopes_[scope].symbols[name]

\* SymbolTable::scope_depth
RECURSIVE depth_from(_, _)
depth_from(st, scope) ==
    IF st.scopes_[scope].parent = NullScope THEN 0
    ELSE 1 + depth_from(st, st.scopes_[scope].parent)
scope_depth(st) == depth_from(st, st.current_)

(***************************************************************************)
(* Type checker (type_checker.cpp).  A TypeChecker is the record           *)
(* [symbol_table_, errors, current_function_return_type_, current_type_];  *)
(* NullType is a null pointer.  A TypeError keeps the format string's      *)
(* arguments apart from the message: names, types and counts.  The         *)
(* visitors of method calls, index expressions and lambdas are not         *)
(* modelled and no program of the bounded input sets contains one.         *)
(***************************************************************************)
NullType == [kind |-> "Null"]
IntT == PrimitiveType("Int")
FloatT == PrimitiveType("Float")
StringT == PrimitiveType("String")
BoolT == PrimitiveType("Bool")

NewTypeChecker ==
    [symbol_table_ |-> NewSymbolTable, errors |-> <<>>,
     current_function_return_type_ |-> NullType, current_type_ |-> NullType]

TypeError(message, names, types, counts) ==
    [message |-> message, names |-> names, types |-> types, counts |-> counts]

\* TypeChecker::error -> TypeCheckResult::add_error
tc_error_first_only(tc, err) ==
    IF tc.errors = <<>> THEN [tc EXCEPT !.errors = <<err>>] ELSE tc
tc_error(tc, err) == [tc EXCEPT !.errors = Append(@, err)]

\* TypeChecker::type_mismatch_error
type_mismatch_error(tc, expected, actual) ==
    tc_error(tc, TypeError("Type mismatch", <<>>, <<expected, actual>>, <<>>))

SetType(tc, type) == [tc EXCEPT !.current_type_ = type]
\* symbol_table_.declare; on failure the error `err`
tc_declare(tc, name, kind, type, err) ==
    LET d == st_declare(tc.symbol_table_, name, kind, type)
        tc1 == [tc EXCEPT !.symbol_table_ = d.st]
    IN IF d.success THEN tc1 ELSE tc_error(tc1, err)

is_numeric(type) ==
    type.kind = "Primitive" /\ type.primitive_kind \in {"Int", "Float"}
is_string(type) == type.kind = "Primitive" /\ type.primitive_kind = "String"

ArithmeticOps == {"Add", "Sub", "Mul", "Div", "Mod", "Pow"}
OrderingOps == {"Lt", "Gt", "Le", "Ge"}
EqualityOps == {"Eq", "Ne"}
LogicalOps == {"And", "Or"}

RECURSIVE tc_visit_expr(_, _), check_expression(_, _), tc_visit_stmt(_, _),
          check_statements(_, _), check_elements(_, _), check_list_rest(_, _, _, _),
          check_arguments(_, _, _, _), check_string_arguments(_, _, _, _),
          check_pattern(_, _, _), check_pattern_elements(_, _, _, _)

\* TypeChecker::check_expression: [tc, type]; current_type_ is moved from
check_expression(tc, expr) ==
    LET t1 == tc_visit_expr(tc, expr)
    IN [tc |-> SetType(t1, NullType),
        type |-> IF t1.current_type_.kind # "Null" THEN t1.current_type_
                 ELSE UnknownType]

\* the loop of visit_tuple: [tc, types]
check_elements(tc, elements) ==
    IF elements = <<>> THEN [tc |-> tc, types |-> <<>>]
    ELSE LET r == check_expression(tc, Head(elements))
             rest == check_elements(r.tc, Tail(elements))
         IN [tc |-> rest.tc, types |-> <<r.type>> \o rest.types]

\* the loop of visit_list over elements i.. (0-based)
check_list_rest(tc, elements, first_type, i) ==
    IF i >= Len(elements) THEN tc
    ELSE LET r == check_expression(tc, elements[i + 1])
             tc1 == IF ~equals(r.type, first_type)
                    THEN type_mismatch_error(r.tc, first_type, r.type) ELSE r.tc
         IN check_list_rest(tc1, elements, first_type, i + 1)

\* the argument loop of visit_call for a user function
check_arguments(tc, arguments, param_types, i) ==
    IF i >= Len(arguments) THEN tc
    ELSE LET r == check_expression(tc, arguments[i + 1])
             tc1 == IF ~equals(r.type, param_types[i + 1])
                    THEN type_mismatch_error(r.tc, param_types[i + 1], r.type)
                    ELSE r.tc
         IN check_arguments(tc1, arguments, param_types, i + 1)

\* the argument checks of read_file / write_file / append_file / file_exists:
\* arguments i..n-1 must be String
check_string_arguments(tc, arguments, i, n) ==
    IF i >= n THEN tc
    ELSE LET r == check_expression(tc, arguments[i + 1])
             tc1 == IF ~is_string(r.type)
                    THEN type_mismatch_error(r.tc, StringT, r.type) ELSE r.tc
         IN check_string_arguments(tc1, arguments, i + 1, n)

\* TypeChecker::visit_identifier
tc_visit_identifier(tc, expr) ==
    LET symbol == st_lookup(tc.symbol_table_, expr.name)
    IN IF symbol.kind = "Null"
       THEN SetType(tc_error(tc, TypeError("Undefined variable", <<expr.name>>,
                                           <<>>, <<>>)),
                    UnknownType)
       ELSE SetType(tc, symbol.type)

\* TypeChecker::visit_list
tc_visit_list_first_only(tc, expr) ==
    IF expr.elements = <<>> THEN SetType(tc, ListType(UnknownType))
    ELSE LET first == check_expression(tc, expr.elements[1])
         IN SetType(first.tc, ListType(first.type))
tc_visit_list(tc, expr) ==
    IF expr.elements = <<>> THEN SetType(tc, ListType(UnknownType))
    ELSE LET first == check_expression(tc, expr.elements[1])
         IN SetType(check_list_rest(first.tc, expr.elements, first.type, 1),
                    ListType(first.type))

\* TypeChecker::check_binary_arithmetic
check_binary_arithmetic_left_type(tc, expr) ==
    LET l == check_expression(tc, expr.left)
        r == check_expression(l.tc, expr.right)
    IN IF ~is_numeric(l.type)
       THEN SetType(tc_error(r.tc, TypeError("Arithmetic operator requires numeric type",
                                             <<>>, <<l.type>>, <<>>)),
                    UnknownType)
       ELSE IF ~is_numeric(r.type)
       THEN SetType(tc_error(r.tc, TypeError("Arithmetic operator requires numeric type",
                                             <<>>, <<r.type>>, <<>>)),
                    UnknownType)
       ELSE SetType(r.tc, l.type)
check_binary_arithmetic(tc, expr) ==
    LET l == check_expression(tc, expr.left)
        r == check_expression(l.tc, expr.right)
    IN IF ~is_numeric(l.type)
       THEN SetType(tc_error(r.tc, TypeError("Arithmetic operator requires numeric type",
                                             <<>>, <<l.type>>, <<>>)),
                    UnknownType)
       ELSE IF ~is_numeric(r.type)
       THEN SetType(tc_error(r.tc, TypeError("Arithmetic operator requires numeric type",
                                             <<>>, <<r.type>>, <<>>)),
                    UnknownType)
       ELSE IF l.type.primitive_kind = "Float" \/ r.type.primitive_kind = "Float"
       THEN SetType(r.tc, FloatT)
       ELSE SetType(r.tc, IntT)

\* TypeChecker::check_binary_comparison
check_binary_comparison(tc, expr) ==
    LET l == check_expression(tc, expr.left)
        r == check_expression(l.tc, expr.right)
    IN IF expr.op \in OrderingOps /\ (~is_numeric(l.type) \/ ~is_numeric(r.type))
       THEN SetType(tc_error(r.tc, TypeError("Ordering comparison requires numeric types",
                                             <<>>, <<>>, <<>>)),
                    BoolT)
       ELSE IF expr.op \in EqualityOps /\ ~equals(l.type, r.type)
       THEN SetType(type_mismatch_error(r.tc, l.type, r.type), BoolT)
       ELSE SetType(r.tc, BoolT)

\* TypeChecker::check_binary_logical
check_binary_logical(tc, expr) ==
    LET l == check_expression(tc, expr.left)
        r == check_expression(l.tc, expr.right)
        tc1 == IF ~equals(l.type, BoolT)
               THEN type_mismatch_error(r.tc, BoolT, l.type) ELSE r.tc
        tc2 == IF ~equals(r.type, BoolT)
               THEN type_mismatch_error(tc1, BoolT, r.type) ELSE tc1
    IN SetType(tc2, BoolT)

\* TypeChecker::check_unary_arithmetic
check_unary_arithmetic(tc, expr) ==
    LET r == check_expression(tc, expr.operand)
    IN IF ~is_numeric(r.type)
       THEN SetType(tc_error(r.tc,
                             TypeError("Unary arithmetic operator requires numeric type",
                                       <<>>, <<r.type>>, <<>>)),
                    UnknownType)
       ELSE SetType(r.tc, r.type)

\* TypeChecker::check_unary_logical
check_unary_logical(tc, expr) ==
    LET r == check_expression(tc, expr.operand)
    IN SetType(IF ~equals(r.type, BoolT)
               THEN type_mismatch_error(r.tc, BoolT, r.type) ELSE r.tc,
               BoolT)

\* the built-in branches of TypeChecker::visit_call: `arity` arguments, the
\* first `strings` of them checked to be String, result type `result`
tc_visit_builtin_call(tc, expr, arity, strings, result) ==
    IF Len(expr.arguments) # arity
    THEN SetType(tc_error(tc, TypeError("Function expects arguments",
                                        <<expr.callee.name>>, <<>>,
                                        <<arity, Len(expr.arguments)>>)),
                 UnknownType)
    ELSE IF strings = 0
    THEN SetType(check_expression(tc, expr.arguments[1]).tc, result)
    ELSE SetType(check_string_arguments(tc, expr.arguments, 0, strings), result)

\* TypeChecker::visit_call
tc_visit_call(tc, expr) ==
    IF expr.callee.kind # "Identifier"
    THEN SetType(tc_error(tc, TypeError("Only function names can be called for now",
                                        <<>>, <<>>, <<>>)),
                 UnknownType)
    ELSE LET func_name == expr.callee.name
             func_symbol == st_lookup(tc.symbol_table_, func_name)
         IN CASE func_name \in {"print", "println"} ->
                    tc_visit_builtin_call(tc, expr, 1, 0, IntT)
              [] func_name = "to_string" -> tc_visit_builtin_call(tc, expr, 1, 0, StringT)
              [] func_name = "read_file" -> tc_visit_builtin_call(tc, expr, 1, 1, StringT)
              [] func_name \in {"write_file", "append_file"} ->
                    tc_visit_builtin_call(tc, expr, 2, 2, BoolT)
              [] func_name = "file_exists" -> tc_visit_builtin_call(tc, expr, 1, 1, BoolT)
              [] OTHER ->
                    IF func_symbol.kind = "Null"
                    THEN SetType(tc_error(tc, TypeError("Undefined function",
                                                        <<func_name>>, <<>>, <<>>)),
                                 UnknownType)
                    ELSE IF func_symbol.type.kind # "Function"
                    THEN SetType(tc_error(tc, TypeError("is not a function",
                                                        <<func_name>>, <<>>, <<>>)),
                                 UnknownType)
                    ELSE IF Len(expr.arguments) # Len(func_symbol.type.param_types)
                    THEN SetType(tc_error(tc, TypeError("Function expects arguments",
                                              <<func_name>>, <<>>,
                                              <<Len(func_symbol.type.param_types),
                                                Len(expr.arguments)>>)),
                                 UnknownType)
                    ELSE SetType(check_arguments(tc, expr.arguments,
                                                 func_symbol.type.param_types, 0),
                                 func_symbol.type.return_type)

\* TypeChecker::visit_if
tc_visit_if(tc, expr) ==
    LET c == check_expression(tc, expr.condition)
        tc1 == IF ~equals(c.type, BoolT)
               THEN type_mismatch_error(c.tc, BoolT, c.type) ELSE c.tc
        t == check_expression(tc1, expr.then_branch)
    IN IF expr.else_branch # <<>>
       THEN LET e == check_expression(t.tc, expr.else_branch[1])
            IN IF ~equals(t.type, e.type)
               THEN SetType(tc_error(e.tc,
                                TypeError("If expression branches have incompatible types",
                                          <<>>, <<t.type, e.type>>, <<>>)),
                            UnknownType)
               ELSE SetType(e.tc, t.type)
       ELSE SetType(t.tc, t.type)

\* the statement loop of visit_block
check_statements(tc, statements) ==
    IF statements = <<>> THEN tc
    ELSE check_statements(tc_visit_stmt(tc, Head(statements)), Tail(statements))

\* TypeChecker::visit_block: after the loop over all statements the
\* expression of a final ExprStmt is checked once more for the block's type
tc_visit_block(tc, expr) ==
    LET tc1 == [tc EXCEPT !.symbol_table_ = st_enter_scope(@, "Block")]
        tc2 == check_statements(tc1, expr.statements)
        tc3 == IF expr.statements # <<>> /\ Last(expr.statements).kind = "ExprStmt"
               THEN LET r == check_expression(tc2, Last(expr.statements).expression)
                    IN SetType(r.tc, r.type)
               ELSE SetType(tc2, UnknownType)
    IN [tc3 EXCEPT !.symbol_table_ = st_exit_scope(@)]

tc_visit_expr(tc, expr) ==
    CASE expr.kind = "IntLiteral" -> SetType(tc, IntT)
      [] expr.kind = "FloatLiteral" -> SetType(tc, FloatT)
      [] expr.kind = "StringLiteral" -> SetType(tc, StringT)
      [] expr.kind = "BoolLiteral" -> SetType(tc, BoolT)
      [] expr.kind = "Identifier" -> tc_visit_identifier(tc, expr)
      [] expr.kind = "Tuple" ->
            LET r == check_elements(tc, expr.elements)
            IN SetType(r.tc, TupleType(r.types))
      [] expr.kind = "List" -> tc_visit_list(tc, expr)
      [] expr.kind = "Binary" ->
            IF expr.op \in ArithmeticOps THEN check_binary_arithmetic(tc, expr)
            ELSE IF expr.op \in LogicalOps THEN check_binary_logical(tc, expr)
            ELSE check_binary_comparison(tc, expr)
      [] expr.kind = "Unary" ->
            IF expr.op = "Not" THEN check_unary_logical(tc, expr)
            ELSE check_unary_arithmetic(tc, expr)
      [] expr.kind = "Call" -> tc_visit_call(tc, expr)
      [] expr.kind = "If" -> tc_visit_if(tc, expr)
      [] expr.kind = "Block" -> tc_visit_block(tc, expr)

\* TypeChecker::visit_let / visit_return / visit_expr_stmt
tc_visit_stmt(tc, stmt) ==
    CASE stmt.kind = "Let" ->
            LET i == check_expression(tc, stmt.initializer)
                declared_type == ast_type_to_semantic(stmt.type_annotation[1])
            IN IF stmt.type_annotation # <<>> /\ ~equals(i.type, declared_type)
               THEN check_pattern(type_mismatch_error(i.tc, declared_type, i.type),
                                  stmt.pattern, declared_type)
               ELSE check_pattern(i.tc, stmt.pattern, i.type)
      [] stmt.kind = "Return" ->
            IF tc.current_function_return_type_.kind = "Null"
            THEN tc_error(tc, TypeError("Return statement outside of function",
                                        <<>>, <<>>, <<>>))
            ELSE LET r == check_expression(tc, stmt.value)
                 IN IF ~equals(r.type, tc.current_function_return_type_)
                    THEN type_mismatch_error(r.tc, tc.current_function_return_type_,
                                             r.type)
                    ELSE r.tc
      [] stmt.kind = "ExprStmt" -> check_expression(tc, stmt.expression).tc

\* the element loop of the Tuple case of check_pattern
check_pattern_elements(tc, elements, element_types, i) ==
    IF i >= Len(elements) THEN tc
    ELSE check_pattern_elements(check_pattern(tc, elements[i + 1], element_types[i + 1]),
                                elements, element_types, i + 1)

\* TypeChecker::check_pattern
check_pattern(tc, pattern, expected_type) ==
    CASE pattern.kind = "Identifier" ->
            tc_declare(tc, pattern.name, "Variable", expected_type,
                       TypeError("Variable is already declared in this scope",
                                 <<pattern.name>>, <<>>, <<>>))
      [] pattern.kind = "Tuple" ->
            IF expected_type.kind # "Tuple"
            THEN tc_error(tc, TypeError("Cannot destructure non-tuple type",
                                        <<>>, <<expected_type>>, <<>>))
            ELSE IF Len(pattern.elements) # Len(expected_type.element_types)
            THEN tc_error(tc, TypeError("Tuple pattern arity",  <<>>, <<>>,
                                        <<Len(pattern.elements),
                                          Len(expected_type.element_types)>>))
            ELSE check_pattern_elements(tc, pattern.elements,
                                        expected_type.element_types, 0)

\* the parameter loop of check_function
RECURSIVE tc_declare_parameters(_, _)
tc_declare_parameters(tc, parameters) ==
    IF parameters = <<>> THEN tc
    ELSE LET param == Head(parameters)
         IN tc_declare_parameters(
                tc_declare(tc, param.name, "Parameter", ast_type_to_semantic(param.type),
                           TypeError("Parameter is already declared", <<param.name>>,
                                     <<>>, <<>>)),
                Tail(parameters))

\* TypeChecker::check_function
check_function(tc, func) ==
    LET tc1 == [tc EXCEPT !.symbol_table_ = st_enter_scope(@, "Function"),
                          !.current_function_return_type_ =
                              ast_type_to_semantic(func.return_type)]
        tc2 == tc_declare_parameters(tc1, func.parameters)
        tc3 == check_expression(tc2, func.body).tc
    IN [tc3 EXCEPT !.symbol_table_ = st_exit_scope(@),
                   !.current_function_return_type_ = NullType]

\* one iteration of the first loop of check_program: the signature of func
declare_signature(tc, func) ==
    tc_declare(tc, func.name, "Function",
               FunctionType([i \in 1..Len(func.parameters) |->
                                ast_type_to_semantic(func.parameters[i].type)],
                            ast_type_to_semantic(func.return_type)),
               TypeError("Function is already declared", <<func.name>>, <<>>, <<>>))

\* TypeChecker::check_program: the first loop, the second loop, the result
RECURSIVE declare_signatures(_, _)
declare_signatures(tc, functions) ==
    IF functions = <<>> THEN tc
    ELSE declare_signatures(declare_signature(tc, Head(functions)), Tail(functions))
RECURSIVE check_functions(_, _)
check_functions(tc, functions) ==
    IF functions = <<>> THEN tc
    ELSE check_functions(check_function(tc, Head(functions)), Tail(functions))
check_program(program) ==
    LET tc == check_functions(declare_signatures(NewTypeChecker, program), program)
    IN [errors |-> tc.errors, success |-> tc.errors = <<>>]

(***************************************************************************)
(* Lexer (lexer.hpp / lexer.cpp).  The source text is a sequence of        *)
(* one-character strings; a Lexer is [source_, current_, start_, line_,    *)
(* line_start_] with 0-based offsets.  A scanning function returns         *)
(* [lexer, token].  std::from_chars fails only on literals longer than the *)
(* bounded sources, so its error branches are left out.                    *)
(***************************************************************************)
NUL == "\\0"
Digits == {"0", "1", "2", "3", "4", "5", "6", "7", "8", "9"}
Letters ==
    {"a", "b", "c", "d", "e", "f", "g", "h", "i", "j", "k", "l", "m", "n", "o", "p",
     "q", "r", "s", "t", "u", "v", "w", "x", "y", "z",
     "A", "B", "C", "D", "E", "F", "G", "H", "I", "J", "K", "L", "M", "N", "O", "P",
     "Q", "R", "S", "T", "U", "V", "W", "X", "Y", "Z"}
is_digit(c) == c \in Digits
is_alpha(c) == c \in Letters
is_alnum(c) == is_alpha(c) \/ is_digit(c)

NewLexer(text) ==
    [source_ |-> text, current_ |-> 0, start_ |-> 0, line_ |-> 1, line_start_ |-> 0]

is_at_end(l) == l.current_ >= Len(l.source_)
peek(l) == IF is_at_end(l) THEN NUL ELSE l.source_[l.current_ + 1]
peek_next(l) ==
    IF l.current_ + 1 >= Len(l.source_) THEN NUL ELSE l.source_[l.current_ + 2]
advance(l) == IF is_at_end(l) THEN l ELSE [l EXCEPT !.current_ = @ + 1]
\* Lexer::match: the lexer afterwards (current_ moved iff the match succeeded)
matches(l, expected) == ~is_at_end(l) /\ l.source_[l.current_ + 1] = expected
match(l, expected) == IF matches(l, expected) THEN advance(l) ELSE l

\* Lexer::make_token overloads; value is <<>> when the token has none
make_token(l, type, value) ==
    [type |-> type, lexeme |-> SubSeq(l.source_, l.start_ + 1, l.current_),
     line |-> l.line_, column |-> l.start_ - l.line_start_ + 1,
     offset |-> l.start_, length |-> l.current_ - l.start_, value |-> value]
\* Lexer::error_token
error_token(l, message) ==
    [type |-> "Error", lexeme |-> <<>>,
     line |-> l.line_, column |-> l.start_ - l.line_start_ + 1,
     offset |-> l.start_, length |-> l.current_ - l.start_, value |-> <<message>>]

\* Lexer::skip_whitespace
RECURSIVE skip_whitespace(_)
skip_whitespace(l) ==
    IF is_at_end(l) THEN l
    ELSE CASE peek(l) \in {" ", "\t", "\r"} -> skip_whitespace(advance(l))
           [] peek(l) = "\n" ->
                skip_whitespace([advance(l) EXCEPT !.line_ = @ + 1,
                                                   !.line_start_ = l.current_ + 1])
           [] OTHER -> l

\* Lexer::skip_comment
RECURSIVE skip_comment(_)
skip_comment(l) ==
    IF ~is_at_end(l) /\ peek(l) # "\n" THEN skip_comment(advance(l)) ELSE l

\* Lexer::skip_multiline_comment (depth only ever goes from 1 to 0)
RECURSIVE skip_multiline_comment(_)
skip_multiline_comment(l) ==
    IF is_at_end(l) THEN l
    ELSE IF peek(l) = "]" /\ peek_next(l) = "#" THEN advance(advance(l))
    ELSE IF peek(l) = "\n"
    THEN skip_multiline_comment([advance(l) EXCEPT !.line_ = @ + 1,
                                                   !.line_start_ = l.current_ + 1])
    ELSE skip_multiline_comment(advance(l))

\* Lexer::identifier_type: the keyword table
Keywords ==
    (<<"f", "u", "n", "c", "t", "i", "o", "n">> :> "Function")
    @@ (<<"r", "e", "t", "u", "r", "n", "s">> :> "Returns")
    @@ (<<"l", "e", "t">> :> "Let")
    @@ (<<"i", "f">> :> "If")
    @@ (<<"e", "l", "s", "e">> :> "Else")
    @@ (<<"r", "e", "t", "u", "r", "n">> :> "Return")
    @@ (<<"l", "a", "m", "b", "d", "a">> :> "Lambda")
    @@ (<<"I", "n", "t">> :> "TypeInt")
    @@ (<<"F", "l", "o", "a", "t">> :> "TypeFloat")
    @@ (<<"S", "t", "r", "i", "n", "g">> :> "TypeString")
    @@ (<<"B", "o", "o", "l">> :> "TypeBool")
    @@ (<<"L", "i", "s", "t">> :> "TypeList")
    @@ (<<"t", "r", "u", "e">> :> "True")
    @@ (<<"f", "a", "l", "s", "e">> :> "False")
    @@ (<<"a", "n", "d">> :> "And")
    @@ (<<"o", "r">> :> "Or")
    @@ (<<"n", "o", "t">> :> "Not")
identifier_type(lexeme) ==
    IF lexeme \in DOMAIN Keywords THEN Keywords[lexeme] ELSE "Identifier"

\* the loops `while (is_digit(peek()) || peek() == '_') advance();`
RECURSIVE skip_digits(_)
skip_digits(l) ==
    IF is_digit(peek(l)) \/ peek(l) = "_" THEN skip_digits(advance(l)) ELSE l

\* Lexer::scan_identifier
RECURSIVE skip_identifier(_)
skip_identifier(l) ==
    IF is_alnum(peek(l)) \/ peek(l) = "_" THEN skip_identifier(advance(l)) ELSE l
scan_identifier(l) ==
    LET l1 == skip_identifier(l)
    IN [lexer |-> l1,
        token |-> make_token(l1, identifier_type(SubSeq(l1.source_, l1.start_ + 1,
                                                        l1.current_)), <<>>)]

\* the lexeme without its underscores
RECURSIVE cleaned(_)
cleaned(lexeme) ==
    IF lexeme = <<>> THEN <<>>
    ELSE IF Head(lexeme) = "_" THEN cleaned(Tail(lexeme))
    ELSE <<Head(lexeme)>> \o cleaned(Tail(lexeme))

\* std::from_chars to int64_t on a string of decimal digits
DigitValue(c) ==
    CASE c = "0" -> 0 [] c = "1" -> 1 [] c = "2" -> 2 [] c = "3" -> 3 [] c = "4" -> 4
      [] c = "5" -> 5 [] c = "6" -> 6 [] c = "7" -> 7 [] c = "8" -> 8 [] c = "9" -> 9
RECURSIVE from_chars(_)
from_chars(digits) ==
    IF digits = <<>> THEN 0
    ELSE 10 * from_chars(Front(digits)) + DigitValue(Last(digits))

\* Lexer::scan_number; the value of a FloatLiteral is kept as its cleaned text
scan_number(l) ==
    LET l1 == skip_digits(l)
        has_fraction == peek(l1) = "." /\ is_digit(peek_next(l1))
        l2 == IF has_fraction THEN skip_digits(advance(l1)) ELSE l1
        has_exponent == peek(l2) \in {"e", "E"}
        l3 == IF has_exponent THEN advance(l2) ELSE l2
        l4 == IF has_exponent /\ peek(l3) \in {"+", "-"} THEN advance(l3) ELSE l3
        l5 == IF has_exponent THEN skip_digits(l4) ELSE l4
        text == cleaned(SubSeq(l5.source_, l5.start_ + 1, l5.current_))
    IN IF has_exponent /\ ~is_digit(peek(l4))
       THEN [lexer |-> l4,
             token |-> error_token(l4, "Invalid exponent in number literal")]
       ELSE IF has_fraction \/ has_exponent
       THEN [lexer |-> l5, token |-> make_token(l5, "FloatLiteral", text)]
       ELSE [lexer |-> l5, token |-> make_token(l5, "IntLiteral", <<from_chars(text)>>)]

\* Lexer::scan_string, after the opening quote; value is the text so far
Escape(c) ==
    CASE c = "n" -> <<"\n">> [] c = "t" -> <<"\t">> [] c = "r" -> <<"\r">>
      [] c = "\\" -> <<"\\">> [] c = "\"" -> <<"\"">> [] OTHER -> <<"\\", c>>
RECURSIVE scan_string(_, _)
scan_string(l, value) ==
    IF is_at_end(l)
    THEN [lexer |-> l, token |-> error_token(l, "Unterminated string literal")]
    ELSE CASE peek(l) = "\"" ->
                [lexer |-> advance(l),
                 token |-> make_token(advance(l), "StringLiteral", value)]
           [] peek(l) = "\n" ->
                scan_string([advance(l) EXCEPT !.line_ = @ + 1,
                                               !.line_start_ = l.current_ + 1],
                            Append(value, "\n"))
           [] peek(l) = "\\" ->
                IF is_at_end(advance(l))
                THEN [lexer |-> advance(l),
                      token |-> error_token(advance(l), "Unterminated string literal")]
                ELSE scan_string(advance(advance(l)),
                                 value \o Escape(peek(advance(l))))
           [] OTHER -> scan_string(advance(l), Append(value, peek(l)))

SingleCharTokens ==
    ("(" :> "LeftParen") @@ (")" :> "RightParen") @@ ("{" :> "LeftBrace")
    @@ ("}" :> "RightBrace") @@ ("[" :> "LeftBracket") @@ ("]" :> "RightBracket")
    @@ ("," :> "Comma") @@ ("." :> "Dot") @@ (":" :> "Colon") @@ ("+" :> "Plus")
    @@ ("-" :> "Minus") @@ ("%" :> "Percent") @@ ("/" :> "Slash")

\* a two-character operator `c` + `second` (type `both`) or `c` alone (`alone`)
scan_operator(l, second, both, alone) ==
    IF matches(l, second)
    THEN [lexer |-> advance(l), token |-> make_token(advance(l), both, <<>>)]
    ELSE [lexer |-> l, token |-> make_token(l, alone, <<>>)]

\* Lexer::scan_token
RECURSIVE scan_token(_)
scan_token(l0) ==
    LET lw == skip_whitespace(l0)
        ls == [lw EXCEPT !.start_ = lw.current_]
        c == peek(ls)
        l == advance(ls)
    IN IF is_at_end(lw) THEN [lexer |-> lw, token |-> make_token(lw, "Eof", <<>>)]
       ELSE CASE c \in DOMAIN SingleCharTokens ->
                    [lexer |-> l, token |-> make_token(l, SingleCharTokens[c], <<>>)]
              [] c = "*" -> scan_operator(l, "*", "Power", "Star")
              [] c = "=" -> scan_operator(l, "=", "Equal", "Assign")
              [] c = "!" ->
                    IF matches(l, "=")
                    THEN [lexer |-> advance(l),
                          token |-> make_token(advance(l), "NotEqual", <<>>)]
                    ELSE [lexer |-> l, token |-> error_token(l, "Unexpected character '!'")]
              [] c = "<" -> scan_operator(l, "=", "LessEqual", "Less")
              [] c = ">" -> scan_operator(l, "=", "GreaterEqual", "Greater")
              [] c = "\"" -> scan_string(l, <<>>)
              [] c = "#" ->
                    IF matches(l, "[") THEN scan_token(skip_multiline_comment(advance(l)))
                    ELSE scan_token(skip_comment(l))
              [] is_digit(c) -> scan_number(l)
              [] is_alpha(c) \/ c = "_" -> scan_identifier(l)
              [] OTHER -> [lexer |-> l, token |-> error_token(l, "Unexpected character")]

\* Lexer::next_token
next_token(l) ==
    IF is_at_end(l) THEN [lexer |-> l, token |-> make_token(l, "Eof", <<>>)]
    ELSE scan_token(l)

\* the condition under which the loop of Lexer::tokenize breaks
stops_tokenize_eof_only(token) == token.type = "Eof"
stops_tokenize(token) == token.type = "Eof" \/ token.type = "Error"

(***************************************************************************)
(* Bounded inputs of the front end and of the semantic layer               *)
(***************************************************************************)
MaxScopes == 3
MaxTypeArity == 1
MaxFunctions == 2
MaxSourceLen == 3

\* SymbolTable: names and the (kind, type) a declaration of each may carry
SymbolNames == {"x", "y"}
Declarations ==
    { <<"x", "Variable", IntT>>, <<"x", "Parameter", BoolT>>,
      <<"y", "Function", FunctionType(<<>>, IntT)>> }
\* the kind the type checker enters: Function under Global, Block elsewhere
EnteredKind(st) ==
    IF st.scopes_[st.current_].kind = "Global" THEN "Function" ELSE "Block"

\* SemanticType::equals: types of nesting depth at most 1
BaseTypes == {IntT, BoolT, UnknownType, TypeVariable("a")}
EqualsTypes ==
    BaseTypes
    \cup {ListType(t) : t \in BaseTypes}
    \cup {TupleType(ts) : ts \in SeqsOf(BaseTypes, 0, MaxTypeArity)}
    \cup {FunctionType(ts, t) : ts \in SeqsOf(BaseTypes, 0, MaxTypeArity), t \in BaseTypes}

\* TypeChecker: function definitions with no, one and several type errors
BoolTypeAnn == NamedType("Bool")
\* function f() returns Int { return 1 }
FunctionClean == FunctionDef("f", <<>>, IntType, <<Return(IntLit(1))>>)
\* function f() returns Int { return true }
FunctionMismatch == FunctionDef("f", <<>>, IntType, <<Return(BoolLit(TRUE))>>)
\* function g(a: Int) returns Int { return a + x }
FunctionUndefined ==
    FunctionDef("g", <<Parameter("a", IntType)>>, IntType,
                <<Return(Binary("Add", Ident("a"), Ident("x")))>>)
\* function g(a: Int, a: Bool) returns Bool
\*   { let b = a  let b: Int = "s"  return f() }
FunctionDuplicates ==
    FunctionDef("g", <<Parameter("a", IntType), Parameter("a", BoolTypeAnn)>>,
                BoolTypeAnn,
                << Let(IdentPat("b"), <<>>, Ident("a")),
                   Let(IdentPat("b"), <<IntType>>, StringLit("s")),
                   Return(Call(Ident("f"), <<>>)) >>)
\* function h(c: Bool) returns Int { if c { 1 } else { "s" }  return g(1) }
FunctionBranches ==
    FunctionDef("h", <<Parameter("c", BoolTypeAnn)>>, IntType,
                << ExprStmt(If(Ident("c"), Block(<<ExprStmt(IntLit(1))>>),
                               <<Block(<<ExprStmt(StringLit("s"))>>)>>)),
                   Return(Call(Ident("g"), <<IntLit(1)>>)) >>)
CheckedFunctions ==
    {FunctionClean, FunctionMismatch, FunctionUndefined, FunctionDuplicates,
     FunctionBranches}
CheckedPrograms == SeqsOf(CheckedFunctions, 0, MaxFunctions)

\* Lexer: every text of up to MaxSourceLen characters over a small alphabet
\* with a letter, a digit, two operators, blank, quote and an invalid
\* character, and the text of the lexer's invalid-character test
SourceAlphabet == {"a", "1", "@", "!", "=", " ", "\""}
InvalidCharacterText == <<"l", "e", "t", " ", "x", " ", "@", " ", "4", "2">>
LexerSources == SeqsOf(SourceAlphabet, 0, MaxSourceLen) \cup {InvalidCharacterText}

(***************************************************************************)
(* Initial values of each component, and the value each component holds    *)
(* while another one is being run                                          *)
(***************************************************************************)
NoSource == [name |-> "none", listing |-> EmptyBytecode]
VmUnused ==
    /\ source = NoSource
    /\ bytecode_ = EmptyBytecode
    /\ stack_ = <<>>
    /\ call_stack_ = <<>>
    /\ vm_state = "unused"
    /\ vm_error = NoError
    /\ vm_result = NoValue
    /\ vm_call = NoCall
    /\ vm_earlier = NoEarlier
SymInit ==
    /\ symtab = NewSymbolTable
    /\ sym_last = [op |-> "new"]
    /\ sym_live = <<1>>
TypeUnused == ty = [pc |-> "unused"]
CheckerUnused == tc_run = [pc |-> "unused"]
LexerUnused == lx = [pc |-> "unused"]
ParserUnused == ps = [pc |-> "unused"]
ExprCheckUnused == ce = [pc |-> "unused"]

(***************************************************************************)
(* Spec: compile a program (or take a listing) and run it on the VM        *)
(***************************************************************************)
Init ==
    /\ source \in Sources
    /\ bytecode_ = BytecodeOf(source)
    /\ stack_ = <<>>
    /\ call_stack_ = <<>>
    /\ vm_state = "idle"
    /\ vm_error = NoError
    /\ vm_result = NoValue
    /\ vm_call = NoCall
    /\ vm_earlier = NoEarlier
    /\ SymInit /\ TypeUnused /\ CheckerUnused /\ LexerUnused /\ ParserUnused /\ ExprCheckUnused

CallEntry ==
    \E function_name \in EntryNames, args \in EntryArgs :
        CallFunction(function_name, args)

Next ==
    \/ CallEntry
    \/ CallFunctionFinish
    \/ OpConstant \/ OpTrue \/ OpFalse
    \/ OpBinary \/ OpUnary
    \/ OpPop \/ OpDup
    \/ OpLoadLocal \/ OpStoreLocal \/ OpLoadGlobal
    \/ OpCall \/ OpReturn
    \/ OpJump \/ OpJumpIfFalse \/ OpJumpIfTrue
    \/ OpBuildList \/ OpBuildTuple \/ OpIndex
    \/ OpCallMethod
    \/ OpHalt \/ OpUnknown

Spec == Init /\ [][Next]_vars

(***************************************************************************)
(* SpecSym: operations on one SymbolTable                                  *)
(***************************************************************************)
InitSym ==
    SymInit /\ VmUnused /\ TypeUnused /\ CheckerUnused /\ LexerUnused /\ ParserUnused /\ ExprCheckUnused

SymEnterScope ==
    /\ Len(symtab.scopes_) < MaxScopes
    /\ symtab' = st_enter_scope(symtab, EnteredKind(symtab))
    /\ sym_last' = [op |-> "enter_scope", kind |-> EnteredKind(symtab)]
    /\ sym_live' = Append(sym_live, Len(symtab.scopes_) + 1)
    /\ UNCHANGED notSymVars

SymExitScope ==
    /\ symtab' = st_exit_scope(symtab)
    /\ sym_last' = [op |-> "exit_scope"]
    /\ sym_live' = IF Len(sym_live) > 1 THEN Front(sym_live) ELSE sym_live
    /\ UNCHANGED notSymVars

SymDeclare(decl) ==
    /\ LET d == st_declare(symtab, decl[1], decl[2], decl[3])
       IN /\ symtab' = d.st
          /\ sym_last' = [op |-> "declare", name |-> decl[1], kind |-> decl[2],
                          type |-> decl[3], success |-> d.success]
    /\ UNCHANGED sym_live
    /\ UNCHANGED notSymVars

SymLookup(name) ==
    /\ sym_last' = [op |-> "lookup", name |-> name, symbol |-> st_lookup(symtab, name)]
    /\ UNCHANGED <<symtab, sym_live>>
    /\ UNCHANGED notSymVars

SymScopeDepth ==
    /\ sym_last' = [op |-> "scope_depth", depth |-> scope_depth(symtab)]
    /\ UNCHANGED <<symtab, sym_live>>
    /\ UNCHANGED notSymVars

Declare == \E decl \in Declarations : SymDeclare(decl)
Lookup == \E name \in SymbolNames : SymLookup(name)

NextSym == SymEnterScope \/ SymExitScope \/ Declare \/ Lookup \/ SymScopeDepth

SpecSym == InitSym /\ [][NextSym]_vars

(***************************************************************************)
(* SpecType: one call t1.equals(t2)                                        *)
(***************************************************************************)
InitType ==
    /\ ty \in {[pc |-> "call", t1 |-> t1, t2 |-> t2] : t1 \in EqualsTypes, t2 \in EqualsTypes}
    /\ SymInit /\ VmUnused /\ CheckerUnused /\ LexerUnused /\ ParserUnused /\ ExprCheckUnused

Equals ==
    /\ ty.pc = "call"
    /\ ty' = [pc |-> "done", t1 |-> ty.t1, t2 |-> ty.t2,
              result |-> equals(ty.t1, ty.t2)]
    /\ UNCHANGED <<source, bytecode_, stack_, call_stack_, vm_state, vm_error,
                   vm_result, vm_call, vm_earlier, symtab, sym_last, sym_live, tc_run, lx, ps, ce>>

NextType == Equals

SpecType == InitType /\ [][NextType]_vars

(***************************************************************************)
(* SpecTC: TypeChecker::check_program on one program.  i and j are the     *)
(* positions (0-based) of the first and of the second loop; checked is the *)
(* history of the functions whose bodies check_function was called on.     *)
(***************************************************************************)
InitTC ==
    /\ tc_run \in {[pc |-> "running", program |-> program, i |-> 0, j |-> 0,
                    checker |-> NewTypeChecker, checked |-> <<>>] :
                       program \in CheckedPrograms}
    /\ SymInit /\ VmUnused /\ TypeUnused /\ LexerUnused /\ ParserUnused /\ ExprCheckUnused

notCheckerVars ==
    <<source, bytecode_, stack_, call_stack_, vm_state, vm_error, vm_result, vm_call, vm_earlier,
      symtab, sym_last, sym_live, ty, lx, ps, ce>>

\* one iteration of the first loop: declare the signature of function i
DeclareSignature ==
    /\ tc_run.pc = "running"
    /\ tc_run.i < Len(tc_run.program)
    /\ tc_run' = [tc_run EXCEPT
                    !.checker = declare_signature(@, tc_run.program[tc_run.i + 1]),
                    !.i = @ + 1]
    /\ UNCHANGED notCheckerVars

\* one iteration of the second loop: check_function on function j
CheckFunction ==
    /\ tc_run.pc = "running"
    /\ tc_run.i >= Len(tc_run.program)
    /\ tc_run.j < Len(tc_run.program)
    /\ tc_run' = [tc_run EXCEPT
                    !.checker = check_function(@, tc_run.program[tc_run.j + 1]),
                    !.checked = Append(@, tc_run.j),
                    !.j = @ + 1]
    /\ UNCHANGED notCheckerVars

\* return std::move(result_)
ReturnResult ==
    /\ tc_run.pc = "running"
    /\ tc_run.i >= Len(tc_run.program)
    /\ tc_run.j >= Len(tc_run.program)
    /\ tc_run' = [pc |-> "returned", program |-> tc_run.program,
                  checked |-> tc_run.checked,
                  result |-> [errors |-> tc_run.checker.errors,
                              success |-> tc_run.checker.errors = <<>>]]
    /\ UNCHANGED notCheckerVars

NextTC == DeclareSignature \/ CheckFunction \/ ReturnResult

SpecTC == InitTC /\ [][NextTC]_vars

(***************************************************************************)
(* SpecLex: Lexer::tokenize on one source text                             *)
(***************************************************************************)
InitLex ==
    /\ lx \in {[pc |-> "loop", lexer |-> NewLexer(text), tokens |-> <<>>] :
                  text \in LexerSources}
    /\ SymInit /\ VmUnused /\ TypeUnused /\ CheckerUnused /\ ParserUnused /\ ExprCheckUnused

notLexerVars ==
    <<source, bytecode_, stack_, call_stack_, vm_state, vm_error, vm_result, vm_call, vm_earlier,
      symtab, sym_last, sym_live, ty, tc_run, ps, ce>>

\* one iteration of the while loop: next_token, push_back, break test
TokenizeStep ==
    /\ lx.pc = "loop"
    /\ ~is_at_end(lx.lexer)
    /\ LET r == next_token(lx.lexer)
       IN lx' = [pc |-> IF stops_tokenize(r.token) THEN "after_loop" ELSE "loop",
                 lexer |-> r.lexer,
                 tokens |-> Append(lx.tokens, r.token)]
    /\ UNCHANGED notLexerVars

\* after the loop: append an Eof token unless the last token is one; return
TokenizeReturn ==
    /\ lx.pc \in {"loop", "after_loop"}
    /\ IF lx.pc = "loop" THEN is_at_end(lx.lexer) ELSE TRUE
    /\ lx' = [pc |-> "returned",
              lexer |-> lx.lexer,
              tokens |-> IF lx.tokens = <<>> \/ Last(lx.tokens).type # "Eof"
                         THEN Append(lx.tokens, make_token(lx.lexer, "Eof", <<>>))
                         ELSE lx.tokens]
    /\ UNCHANGED notLexerVars

NextLex == TokenizeStep \/ TokenizeReturn

SpecLex == InitLex /\ [][NextLex]_vars

(***************************************************************************)
(* Frontend: Parser (parser.cpp), expression parsing.  A token is          *)
(* [type, lexeme, value]; the parser is [tokens_, current_, errors_] with  *)
(* current_ counting from 0.  Of parse_primary the Identifier and          *)
(* IntLiteral branches and the final error branch are modelled, and        *)
(* parse_postfix for a next token that opens no call, method call or       *)
(* index; the token sequences parsed contain no other primary and no       *)
(* postfix operator.                                                       *)
(***************************************************************************)
PREC_LOWEST == 0
PREC_OR == 10
PREC_AND == 20
PREC_COMPARISON == 30
PREC_ADDITIVE == 40
PREC_MULTIPLICATIVE == 50
PREC_POWER == 60
PREC_UNARY == 70

Tok(type, lexeme) == [type |-> type, lexeme |-> lexeme, value |-> <<>>]
IntTok(n) == [type |-> "IntLiteral", lexeme |-> ToString(n), value |-> <<n>>]
NullExpr == [kind |-> "null"]

\* Parser::Parser
NewParser(tokens) == [tokens_ |-> tokens, current_ |-> 0, errors_ |-> <<>>]

\* Parser::peek
Parser_peek(p) ==
    IF p.current_ >= Len(p.tokens_) THEN Last(p.tokens_) ELSE p.tokens_[p.current_ + 1]
\* Parser::is_at_end
Parser_is_at_end(p) == Parser_peek(p).type = "Eof"
\* Parser::advance (the parser after it; the token it returns is the one peeked before)
Parser_advance(p) ==
    IF ~Parser_is_at_end(p) THEN [p EXCEPT !.current_ = @ + 1] ELSE p
\* Parser::check
Parser_check(p, type) == ~Parser_is_at_end(p) /\ Parser_peek(p).type = type
\* Parser::error_at
Parser_error_at(p, token, message) ==
    [p EXCEPT !.errors_ = Append(@, [token |-> token, message |-> message])]
\* Parser::error
Parser_error(p, message) == Parser_error_at(p, Parser_peek(p), message)

\* while (match(TokenType::Newline)) {}
RECURSIVE skip_newlines(_)
skip_newlines(p) ==
    IF Parser_check(p, "Newline") THEN skip_newlines(Parser_advance(p)) ELSE p

\* Parser::get_binary_precedence
get_binary_precedence(type) ==
    CASE type = "Or" -> PREC_OR
      [] type = "And" -> PREC_AND
      [] type \in {"Equal", "NotEqual", "Less", "Greater", "LessEqual", "GreaterEqual"} ->
            PREC_COMPARISON
      [] type \in {"Plus", "Minus"} -> PREC_ADDITIVE
      [] type \in {"Star", "Slash", "Percent"} -> PREC_MULTIPLICATIVE
      [] type = "Power" -> PREC_POWER
      [] OTHER -> PREC_LOWEST
\* Parser::is_binary_operator
is_binary_operator(type) == get_binary_precedence(type) > PREC_LOWEST
\* Parser::is_unary_operator
is_unary_operator(type) == type \in {"Not", "Minus", "Plus"}
\* Parser::is_right_associative
is_right_associative_never(type) == FALSE
is_right_associative(type) == type = "Power"

\* ast::binary_op_from_token (<<>> is std::nullopt)
binary_op_from_token(type) ==
    CASE type = "Plus" -> <<"Add">> [] type = "Minus" -> <<"Sub">>
      [] type = "Star" -> <<"Mul">> [] type = "Slash" -> <<"Div">>
      [] type = "Percent" -> <<"Mod">> [] type = "Power" -> <<"Pow">>
      [] type = "Equal" -> <<"Eq">> [] type = "NotEqual" -> <<"Ne">>
      [] type = "Less" -> <<"Lt">> [] type = "Greater" -> <<"Gt">>
      [] type = "LessEqual" -> <<"Le">> [] type = "GreaterEqual" -> <<"Ge">>
      [] type = "And" -> <<"And">> [] type = "Or" -> <<"Or">>
      [] OTHER -> <<>>
\* ast::unary_op_from_token
unary_op_from_token(type) ==
    CASE type = "Not" -> <<"Not">> [] type = "Minus" -> <<"Neg">>
      [] type = "Plus" -> <<"Pos">> [] OTHER -> <<>>

\* Parser::expect: [parser, ok]
Parser_expect(p, type, message) ==
    IF Parser_check(p, type) THEN [parser |-> Parser_advance(p), ok |-> TRUE]
    ELSE [parser |-> Parser_error(p, message), ok |-> FALSE]
\* Parser::match: the parser after it; it returned Parser_check(p, type)
Parser_match(p, type) == IF Parser_check(p, type) THEN Parser_advance(p) ELSE p

\* Parser::synchronize: one test of its loop, and the loop
SynchronizeTokens == {"Function", "Let", "Return", "If", "LeftBrace", "RightBrace"}
synchronize_stops(p) == Parser_is_at_end(p) \/ Parser_peek(p).type \in SynchronizeTokens
RECURSIVE synchronize(_)
synchronize(p) == IF synchronize_stops(p) THEN p ELSE synchronize(Parser_advance(p))

\* A call from one parsing function into the expression grammar: the callee is
\* parse_precedence (with its minimum precedence), parse_if_expression or
\* parse_block_expression
RECURSIVE parse_rule(_, _, _)
RECURSIVE parse_infix(_, _, _)

\* Parser::parse_primary, for the tokens that start no tuple, list, lambda,
\* float, string or boolean literal
parse_primary(p) ==
    LET token == Parser_peek(p)
    IN CASE token.type = "IntLiteral" ->
              IF token.value # <<>>
              THEN [parser |-> Parser_advance(p), expr |-> IntLit(token.value[1])]
              ELSE [parser |-> Parser_error_at(Parser_advance(p), token,
                                               "Integer literal missing value"),
                    expr |-> NullExpr]
         [] token.type = "Identifier" ->
              [parser |-> Parser_advance(p), expr |-> Ident(token.lexeme)]
         [] token.type = "If" -> parse_rule("if_expression", Parser_advance(p), PREC_LOWEST)
         [] token.type = "LeftBrace" ->
              parse_rule("block_expression", Parser_advance(p), PREC_LOWEST)
         [] OTHER ->
              [parser |-> Parser_advance(Parser_error(p, "Unexpected token in expression")),
               expr |-> NullExpr]

\* Parser::parse_postfix, when the next token is none of ( . [
parse_postfix(p, expr) == [parser |-> p, expr |-> expr]

\* Parser::parse_prefix
parse_prefix(p) ==
    IF is_unary_operator(Parser_peek(p).type)
    THEN LET op_token == Parser_peek(p)
             r == parse_rule("precedence", Parser_advance(p), PREC_UNARY)
             op == unary_op_from_token(op_token.type)
         IN IF r.expr.kind = "null" THEN r
            ELSE IF op = <<>>
                 THEN [parser |-> Parser_error_at(r.parser, op_token,
                                                  "Invalid unary operator"),
                       expr |-> NullExpr]
                 ELSE [parser |-> r.parser, expr |-> Unary(op[1], r.expr)]
    ELSE parse_primary(p)

\* Parser::parse_precedence: the prefix, the postfix chain, then the infix loop
parse_precedence(p, min_prec) ==
    LET prefix == parse_prefix(p)
        postfix == parse_postfix(prefix.parser, prefix.expr)
    IN IF prefix.expr.kind = "null" THEN prefix
       ELSE IF postfix.expr.kind = "null" THEN postfix
       ELSE parse_infix(postfix.parser, postfix.expr, min_prec)

\* the while (!is_at_end()) loop of parse_precedence, from its test on
parse_infix(p, left, min_prec) ==
    IF Parser_is_at_end(p) THEN [parser |-> p, expr |-> left]
    ELSE LET p1 == skip_newlines(p)
             op_token == Parser_peek(p1)
             prec == get_binary_precedence(op_token.type)
             next_min_prec ==
                 IF ~is_right_associative(op_token.type) THEN prec + 1 ELSE prec
             right == parse_rule("precedence", skip_newlines(Parser_advance(p1)),
                                next_min_prec)
             op == binary_op_from_token(op_token.type)
         IN IF ~is_binary_operator(op_token.type) THEN [parser |-> p1, expr |-> left]
            ELSE IF prec < min_prec THEN [parser |-> p1, expr |-> left]
            ELSE IF right.expr.kind = "null" THEN right
            ELSE IF op = <<>>
                 THEN [parser |-> Parser_error_at(right.parser, op_token,
                                                  "Invalid binary operator"),
                       expr |-> NullExpr]
            ELSE parse_infix(right.parser, Binary(op[1], left, right.expr), min_prec)

\* Parser::parse_expression
parse_expression(p) == parse_rule("precedence", p, PREC_LOWEST)

\* Parser::parse_type / parse_primary_type, for the tokens that start no list,
\* generic or tuple type: [parser, node]
TypeKeywords == [TypeInt |-> "Int", TypeFloat |-> "Float", TypeString |-> "String",
                 TypeBool |-> "Bool"]
parse_type(p) ==
    LET token == Parser_peek(p)
    IN IF Parser_is_at_end(p) THEN [parser |-> Parser_error(p, "Expected type"),
                                   node |-> NullExpr]
       ELSE IF token.type \in DOMAIN TypeKeywords
       THEN [parser |-> Parser_advance(p),
             node |-> [kind |-> "Named", name |-> TypeKeywords[token.type]]]
       ELSE IF token.type = "Identifier"
       THEN [parser |-> Parser_advance(p),
             node |-> [kind |-> "Named", name |-> token.lexeme]]
       ELSE [parser |-> Parser_error(p, "Expected type"), node |-> NullExpr]

\* Parser::parse_pattern, for the tokens that start no tuple pattern
parse_pattern(p) ==
    IF Parser_check(p, "Identifier")
    THEN [parser |-> Parser_advance(p), node |-> IdentPat(Parser_peek(p).lexeme)]
    ELSE [parser |-> Parser_error(p, "Expected pattern (identifier or tuple)"),
          node |-> NullExpr]

\* Parser::parse_let_statement ('let' already consumed)
parse_let_statement(p) ==
    LET pattern == parse_pattern(p)
        annotated == Parser_check(pattern.parser, "Colon")
        type == parse_type(Parser_advance(pattern.parser))
        p1 == IF annotated THEN type.parser ELSE pattern.parser
        assign == Parser_expect(p1, "Assign", "Expected '=' in let statement")
        initializer == parse_expression(assign.parser)
    IN IF pattern.node.kind = "null" THEN pattern
       ELSE IF annotated /\ type.node.kind = "null" THEN type
       ELSE IF ~assign.ok THEN [parser |-> assign.parser, node |-> NullExpr]
       ELSE IF initializer.expr.kind = "null"
       THEN [parser |-> initializer.parser, node |-> NullExpr]
       ELSE [parser |-> initializer.parser,
             node |-> Let(pattern.node, IF annotated THEN <<type.node>> ELSE <<>>,
                          initializer.expr)]

\* Parser::parse_return_statement ('return' already consumed)
parse_return_statement(p) ==
    LET value == parse_expression(p)
    IN [parser |-> value.parser,
        node |-> IF value.expr.kind = "null" THEN NullExpr ELSE Return(value.expr)]

\* Parser::parse_expression_statement
parse_expression_statement(p) ==
    LET expr == parse_expression(p)
    IN [parser |-> expr.parser,
        node |-> IF expr.expr.kind = "null" THEN NullExpr ELSE ExprStmt(expr.expr)]

\* Parser::parse_statement
parse_statement(p) ==
    IF Parser_check(p, "Let") THEN parse_let_statement(Parser_advance(p))
    ELSE IF Parser_check(p, "Return") THEN parse_return_statement(Parser_advance(p))
    ELSE parse_expression_statement(p)

\* one iteration of the statement loop of parse_block_expression: the parser
\* after it, and the statement it pushed (null: none)
block_iteration(p) ==
    LET stmt == parse_statement(p)
    IN IF stmt.node.kind = "null"
       THEN [parser |-> synchronize(stmt.parser), node |-> NullExpr]
       ELSE [parser |-> skip_newlines(stmt.parser), node |-> stmt.node]
\* the test of the statement loop
block_loop_stops(p) == Parser_check(p, "RightBrace") \/ Parser_is_at_end(p)
\* the statement loop from its test on, then the closing brace
RECURSIVE block_statements(_, _)
block_statements(p, statements) ==
    IF block_loop_stops(p)
    THEN LET brace == Parser_expect(p, "RightBrace", "Expected '}' after block")
         IN [parser |-> brace.parser,
             expr |-> IF brace.ok THEN Block(statements) ELSE NullExpr]
    ELSE LET iteration == block_iteration(p)
         IN block_statements(iteration.parser,
                             IF iteration.node.kind = "null" THEN statements
                             ELSE Append(statements, iteration.node))
\* Parser::parse_block_expression ('{' already consumed)
parse_block_expression(p) == block_statements(skip_newlines(p), <<>>)

\* Parser::parse_if_expression ('if' already consumed)
parse_if_expression(p) ==
    LET condition == parse_expression(p)
        brace == Parser_expect(condition.parser, "LeftBrace",
                               "Expected '{' after if condition")
        then_branch == parse_rule("block_expression", brace.parser, PREC_LOWEST)
        has_else == Parser_check(then_branch.parser, "Else")
        after_else == Parser_advance(then_branch.parser)
        else_brace == Parser_expect(after_else, "LeftBrace", "Expected '{' after 'else'")
        else_branch ==
            IF Parser_check(after_else, "If")
            THEN parse_rule("if_expression", Parser_advance(after_else), PREC_LOWEST)
            ELSE IF else_brace.ok
            THEN parse_rule("block_expression", else_brace.parser, PREC_LOWEST)
            ELSE [parser |-> else_brace.parser, expr |-> NullExpr]
    IN IF condition.expr.kind = "null" THEN condition
       ELSE IF ~brace.ok THEN [parser |-> brace.parser, expr |-> NullExpr]
       ELSE IF then_branch.expr.kind = "null" THEN then_branch
       ELSE IF ~has_else
       THEN [parser |-> then_branch.parser,
             expr |-> If(condition.expr, then_branch.expr, <<>>)]
       ELSE IF ~Parser_check(after_else, "If") /\ ~else_brace.ok
       THEN [parser |-> else_brace.parser, expr |-> NullExpr]
       ELSE [parser |-> else_branch.parser,
             expr |-> If(condition.expr, then_branch.expr, <<else_branch.expr>>)]

parse_rule(rule, p, min_prec) ==
    CASE rule = "precedence" -> parse_precedence(p, min_prec)
      [] rule = "if_expression" -> parse_if_expression(p)
      [] rule = "block_expression" -> parse_block_expression(p)

\* Parser::parse_parameter
parse_parameter(p) ==
    LET colon == Parser_expect(Parser_advance(p), "Colon",
                               "Expected ':' after parameter name")
        type == parse_type(colon.parser)
    IN IF ~Parser_check(p, "Identifier")
       THEN [parser |-> Parser_error(p, "Expected parameter name"), node |-> NullExpr]
       ELSE IF ~colon.ok THEN [parser |-> colon.parser, node |-> NullExpr]
       ELSE IF type.node.kind = "null" THEN type
       ELSE [parser |-> type.parser, node |-> Parameter(Parser_peek(p).lexeme, type.node)]
\* do { parse_parameter } while (match(Comma)): [parser, ok, parameters]
RECURSIVE parse_parameters(_, _)
parse_parameters(p, parameters) ==
    LET param == parse_parameter(p)
    IN IF param.node.kind = "null"
       THEN [parser |-> param.parser, ok |-> FALSE, parameters |-> parameters]
       ELSE IF Parser_check(param.parser, "Comma")
       THEN parse_parameters(Parser_advance(param.parser), Append(parameters, param.node))
       ELSE [parser |-> param.parser, ok |-> TRUE,
             parameters |-> Append(parameters, param.node)]

\* Parser::parse_function ('function' already consumed): [parser, ok, node]
parse_function(p) ==
    LET failed(q) == [parser |-> q, ok |-> FALSE, node |-> NullExpr]
        name == Parser_peek(p).lexeme
        left == Parser_expect(Parser_advance(p), "LeftParen",
                              "Expected '(' after function name")
        params == IF ~Parser_check(left.parser, "RightParen")
                  THEN parse_parameters(left.parser, <<>>)
                  ELSE [parser |-> left.parser, ok |-> TRUE, parameters |-> <<>>]
        right == Parser_expect(params.parser, "RightParen", "Expected ')' after parameters")
        returns == Parser_expect(right.parser, "Returns",
                                 "Expected 'returns' after parameters")
        return_type == parse_type(returns.parser)
        brace == Parser_expect(return_type.parser, "LeftBrace",
                               "Expected '{' for function body")
        body == parse_rule("block_expression", brace.parser, PREC_LOWEST)
    IN IF ~Parser_check(p, "Identifier")
       THEN failed(Parser_error(p, "Expected function name"))
       ELSE IF ~left.ok THEN failed(left.parser)
       ELSE IF ~params.ok THEN failed(params.parser)
       ELSE IF ~right.ok THEN failed(right.parser)
       ELSE IF ~returns.ok THEN failed(returns.parser)
       ELSE IF return_type.node.kind = "null" THEN failed(return_type.parser)
       ELSE IF ~brace.ok THEN failed(brace.parser)
       ELSE IF body.expr.kind = "null" THEN failed(body.parser)
       ELSE [parser |-> body.parser, ok |-> TRUE,
             node |-> FunctionDef(name, params.parameters, return_type.node,
                                  body.expr.statements)]

(***************************************************************************)
(* Parser inputs: the token sequences operand (operator operand)* Eof      *)
(* with up to MaxOperators binary operators, the operands identifiers      *)
(* a, b, c, ... (each negated with a prefix minus, or none), with or       *)
(* without a newline on both sides of every operator, and with or without  *)
(* the last operand missing.                                               *)
(***************************************************************************)
MaxOperators == 2

BinaryOperatorTokens ==
    {"Or", "And", "Equal", "NotEqual", "Less", "Greater", "LessEqual", "GreaterEqual",
     "Plus", "Minus", "Star", "Slash", "Percent", "Power"}
OperandNames == <<"a", "b", "c", "d", "e", "f">>
Operand(k, negated) ==
    IF negated THEN <<Tok("Minus", "-"), Tok("Identifier", OperandNames[k])>>
    ELSE <<Tok("Identifier", OperandNames[k])>>
Operator(type, newlines) ==
    IF newlines THEN <<Tok("Newline", ""), Tok(type, type), Tok("Newline", "")>>
    ELSE <<Tok(type, type)>>
RECURSIVE InfixTokens(_, _, _)
InfixTokens(ops, negated, newlines) ==
    IF ops = <<>> THEN Operand(1, negated)
    ELSE InfixTokens(SubSeq(ops, 1, Len(ops) - 1), negated, newlines)
         \o Operator(ops[Len(ops)], newlines) \o Operand(Len(ops) + 1, negated)
OperatorSeqs == UNION {[1..n -> BinaryOperatorTokens] : n \in 0..MaxOperators}
ParserSources ==
    {(IF dangling
      THEN SubSeq(InfixTokens(ops, negated, newlines), 1,
                  Len(InfixTokens(ops, negated, newlines)) - 1)
      ELSE InfixTokens(ops, negated, newlines)) \o <<Tok("Eof", "")>> :
        ops \in OperatorSeqs, negated \in BOOLEAN, newlines \in BOOLEAN,
        dangling \in BOOLEAN}

(***************************************************************************)
(* SpecParse: Parser::parse_expression on one token sequence               *)
(***************************************************************************)
InitParse ==
    /\ ps \in {[pc |-> "call", parser |-> NewParser(tokens)] : tokens \in ParserSources}
    /\ SymInit /\ VmUnused /\ TypeUnused /\ CheckerUnused /\ LexerUnused
    /\ ExprCheckUnused

notParserVars ==
    <<source, bytecode_, stack_, call_stack_, vm_state, vm_error, vm_result, vm_call, vm_earlier,
      symtab, sym_last, sym_live, ty, tc_run, lx, ce>>

ParseExpression ==
    /\ ps.pc = "call"
    /\ LET r == parse_expression(ps.parser)
       IN ps' = [pc |-> "returned", parser |-> r.parser, result |-> r.expr]
    /\ UNCHANGED notParserVars

NextParse == ParseExpression

SpecParse == InitParse /\ [][NextParse]_vars

(***************************************************************************)
(* SpecExpr: TypeChecker::check_expression on one expression, by a new     *)
(* TypeChecker.  The expressions are the binary arithmetic expressions     *)
(* over literal and nested arithmetic operands, and the list literals of   *)
(* up to MaxElements literal or list elements.                             *)
(***************************************************************************)
MaxElements == 3

ArithmeticOperands ==
    {IntLit(1), FloatLit(5, 2), StringLit("s"), BoolLit(TRUE),
     Binary("Mul", IntLit(2), IntLit(3)), Binary("Sub", FloatLit(1, 2), IntLit(1)),
     Binary("Add", IntLit(1), BoolLit(FALSE)), Ident("u")}
ArithmeticExprs ==
    {Binary(op, left, right) :
        op \in ArithmeticOps, left \in ArithmeticOperands, right \in ArithmeticOperands}
ListElements ==
    {IntLit(1), FloatLit(5, 2), StringLit("s"), ListE(<<>>), ListE(<<IntLit(1)>>)}
ListExprs == {ListE(elements) : elements \in SeqsOf(ListElements, 0, MaxElements)}
ExprSources == ArithmeticExprs \cup ListExprs

InitExpr ==
    /\ ce \in {[pc |-> "call", checker |-> NewTypeChecker, expr |-> expr] :
                  expr \in ExprSources}
    /\ SymInit /\ VmUnused /\ TypeUnused /\ CheckerUnused /\ LexerUnused /\ ParserUnused

notExprCheckVars ==
    <<source, bytecode_, stack_, call_stack_, vm_state, vm_error, vm_result, vm_call, vm_earlier,
      symtab, sym_last, sym_live, ty, tc_run, lx, ps>>

CheckExpression ==
    /\ ce.pc = "call"
    /\ LET r == check_expression(ce.checker, ce.expr)
       IN ce' = [pc |-> "returned", checker |-> r.tc, expr |-> ce.expr, type |-> r.type]
    /\ UNCHANGED notExprCheckVars

NextExpr == CheckExpression

SpecExpr == InitExpr /\ [][NextExpr]_vars

(***************************************************************************)
(* Properties of the backend, checked under Spec                           *)
(***************************************************************************)
\* call_function("main", {})
MainCall == [function_name |-> "main", args |-> <<>>]
RunsMain(name) == source.name = name /\ ~IsListing(source) /\ vm_call = MainCall
MainStatements == source.program[Len(source.program)].body.statements

\* the values v1..vn of `let (x1, .., xn) = (v1, .., vn)`
DestructuredValues ==
    LET elements == MainStatements[1].initializer.elements
    IN [i \in 1..Len(elements) |-> elements[i].int_value]
RECURSIVE SumOf(_)
SumOf(ns) == IF ns = <<>> THEN 0 ELSE ns[1] + SumOf(Tail(ns))

\* C1: pattern round-trip.  Executing main of
\* `let (x1, .., xn) = (v1, .., vn)  return x1 + .. + xn` never ends in a
\* runtime error, at the return every local xi (slot i - 1) holds vi, and
\* the call returns Int v1 + .. + vn (Int 30 for (10, 20)).
C1_PatternRoundTrip ==
    RunsMain("destructure") =>
        /\ vm_state # "error"
        /\ CurOp = "RETURN" =>
              \A i \in 1..Len(DestructuredValues) :
                  current_frame.locals[i] = IntV(DestructuredValues[i])
        /\ vm_state = "done" => vm_result = IntV(SumOf(DestructuredValues))

\* C2: frame isolation.  The RETURN that pops the frame a CALL with
\* arg_count arguments pushed leaves the operand stack at the height it had
\* before the CALL minus arg_count plus 1, which is the frame's stack_base
\* plus 1.
C2_FrameIsolation ==
    [][(CurOp = "RETURN" /\ Len(call_stack_) > 1
            /\ call_stack_' = Front(call_stack_))
         => Len(stack_') = current_frame.stack_base + 1]_vars

\* a 16-bit operand read as a signed little-endian number: low byte first,
\* two's complement
SignedLittleEndian(low, high) ==
    IF high >= 128 THEN low + 256 * high - 65536 ELSE low + 256 * high
\* the guarding predicate of the jump at ip holds
JumpGuard ==
    IF CurOp = "JUMP" THEN TRUE
    ELSE IF CurOp = "JUMP_IF_FALSE" THEN ~is_truthy(Last(stack_))
    ELSE is_truthy(Last(stack_))

\* C3: jump targeting.  A JUMP, a JUMP_IF_FALSE on a falsy top of stack or a
\* JUMP_IF_TRUE on a truthy top of stack with signed little-endian operand k
\* sets the instruction pointer to (address after the operand) + k, for
\* k < 0 and k > 0; when the guard fails the instruction pointer is the
\* address after the operand.
C3_JumpTargeting ==
    [][(CurOp \in Jumps /\ (CurOp \in ConditionalJumps => stack_ # <<>>)
            /\ call_stack_' # call_stack_)
         => LET k == SignedLittleEndian(code_at(ip + 1), code_at(ip + 2))
            IN /\ vm_state' = "running"
               /\ ip' = IF JumpGuard THEN ip + 3 + k ELSE ip + 3]_vars

\* a backward JUMP_IF_FALSE (k = -7) on a falsy value was taken: the listing
\* returned the constant the jump leads to
C3_BackwardJumpTaken ==
    /\ source.name = "backward_jump"
    /\ CurOp = "RETURN"
    /\ ip = 9
    /\ code_at(10) = OpCode("JUMP_IF_FALSE")
    /\ SignedLittleEndian(code_at(11), code_at(12)) = -7
    /\ stack_ = <<IntV(0), IntV(1)>>

\* truthiness as the language defines it: Bool is itself, Int and Float are
\* non-zero, String, List and Tuple are non-empty, Function is true
Truthy(v) ==
    \/ v.type = "Bool" /\ v.bool_val
    \/ v.type = "Int" /\ v.int_val # 0
    \/ v.type = "Float" /\ v.float_val[1] # 0
    \/ v.type = "String" /\ v.string_val # ""
    \/ v.type = "List" /\ Len(v.list_val) > 0
    \/ v.type = "Tuple" /\ Len(v.tuple_val) > 0
    \/ v.type = "Function"

\* C4: truthiness agreement.  JUMP_IF_FALSE on a value v takes its jump iff
\* v is falsy, and NOT on v replaces v by Bool(not truthy(v)).
C4_TruthinessAgreement ==
    [][/\ (CurOp = "JUMP_IF_FALSE" /\ stack_ # <<>> /\ call_stack_' # call_stack_)
            => LET target == JumpTarget(ip + 3, read_uint16(ip + 1))
               IN /\ target # ip + 3
                  /\ (ip' = target) <=> ~Truthy(Last(stack_))
                  /\ (ip' = ip + 3) <=> Truthy(Last(stack_))
       /\ (CurOp = "NOT" /\ stack_ # <<>> /\ call_stack_' # call_stack_)
            => /\ vm_state' = "running"
               /\ stack_' = Append(Front(stack_), BoolV(~Truthy(Last(stack_))))]_vars

\* JUMP_IF_FALSE on the empty string took its jump
C4_EmptyStringJumps ==
    /\ source.name = "forward_jump"
    /\ code_at(3) = OpCode("JUMP_IF_FALSE")
    /\ stack_ = <<StringV("")>>
    /\ Running
    /\ ip = 10

\* after `let xs = [..]  let ys = xs.m(args)` main is about to return xs
AfterListMethod(methods) ==
    /\ RunsMain("list")
    /\ MainStatements[2].initializer.method_name \in methods
    /\ CurOp = "RETURN"
\* the elements of the list literal xs is bound to
OriginalList ==
    LET elements == MainStatements[1].initializer.elements
    IN ListV([i \in 1..Len(elements) |-> IntV(elements[i].int_value)])
\* what xs.m(args) is for the methods that build a list, args being 3 or [3]
NewList(method, list) ==
    IF method = "append" THEN ListV(list.list_val \o <<IntV(3)>>)
    ELSE IF method = "concat" THEN ListV(list.list_val \o <<IntV(3)>>)
    ELSE IF method = "tail" THEN ListV(SubSeq(list.list_val, 2, Len(list.list_val)))
    ELSE ListV([i \in 1..Len(list.list_val) |->
                  list.list_val[Len(list.list_val) + 1 - i]])

\* C9: collection methods return new values.  After append, tail, reverse
\* or concat on the list held in local xs, xs still holds the original list
\* (same elements, same order), the result bound to ys is the new list, and
\* main returns the original list.
C9_MethodsReturnNewValues ==
    /\ AfterListMethod({"append", "tail", "reverse", "concat"}) =>
          /\ current_frame.locals[1] = OriginalList
          /\ current_frame.locals[2] =
                NewList(MainStatements[2].initializer.method_name, OriginalList)
          /\ Last(stack_) = OriginalList
    /\ (RunsMain("list") /\ vm_state = "done") => vm_result = OriginalList

\* xs = [1, 2], ys = xs.append(3): xs is still [1, 2] and ys is [1, 2, 3]
C9_AppendKeepsOriginal ==
    /\ AfterListMethod({"append"})
    /\ current_frame.locals[1] = ListV(<<IntV(1), IntV(2)>>)
    /\ current_frame.locals[2] = ListV(<<IntV(1), IntV(2), IntV(3)>>)

(***************************************************************************)
(* Properties of the symbol table, checked under SpecSym                   *)
(***************************************************************************)
CurrentSymbols == symtab.scopes_[symtab.current_].symbols
\* the scopes entered and not exited that enclose the current one
EnclosingScopes == {sym_live[i] : i \in 1..(Len(sym_live) - 1)}

\* C6: a declare of a name the current scope already has returns false and
\* leaves that scope's symbol of the name (kind and type) as it was; a
\* declare of a name the current scope does not have succeeds and enters the
\* symbol there, also when an enclosing scope has the name, whose symbol
\* stays as it was.
C6_DeclareInCurrentScope ==
    [][\A decl \in Declarations :
          SymDeclare(decl) =>
              LET name == decl[1]
                  declared == symtab'.scopes_[symtab'.current_].symbols[name]
              IN /\ symtab'.current_ = symtab.current_
                 /\ IF name \in DOMAIN CurrentSymbols
                    THEN /\ ~sym_last'.success
                         /\ declared.kind = CurrentSymbols[name].kind
                         /\ declared.type = CurrentSymbols[name].type
                         /\ symtab' = symtab
                    ELSE /\ sym_last'.success
                         /\ declared.kind = decl[2]
                         /\ declared.type = decl[3]
                         /\ \A s \in EnclosingScopes :
                               symtab'.scopes_[s] = symtab.scopes_[s]]_vars

\* x is a Variable of type Int in the current scope, and a declare of x as
\* a Parameter of type Bool has just returned false
C6_RedeclareRefused ==
    /\ sym_last.op = "declare"
    /\ sym_last.name = "x" /\ sym_last.kind = "Parameter"
    /\ ~sym_last.success
    /\ CurrentSymbols["x"].kind = "Variable"
    /\ CurrentSymbols["x"].type = IntT
    /\ Len(sym_live) > 1
    /\ "x" \in DOMAIN symtab.scopes_[1].symbols

\* the symbol of name in the innermost scope, among those entered and not
\* exited, that declares name; null when there is none
InnermostSymbol(name) ==
    LET declaring == {i \in 1..Len(sym_live) :
                         name \in DOMAIN symtab.scopes_[sym_live[i]].symbols}
        innermost == CHOOSE i \in declaring : \A j \in declaring : j <= i
    IN IF declaring = {} THEN NullSymbol
       ELSE symtab.scopes_[sym_live[innermost]].symbols[name]

\* C7: after any sequence of enter_scope, declare and exit_scope,
\* lookup(name) is the symbol of the innermost scope from the current one up
\* to the global one that declares name, null if none does (so never a
\* symbol of an exited scope), and scope_depth is the number of scopes
\* entered and not exited.
C7_LookupInnermost ==
    /\ \A name \in SymbolNames : st_lookup(symtab, name) = InnermostSymbol(name)
    /\ scope_depth(symtab) = Len(sym_live) - 1
    /\ sym_last.op = "lookup" => sym_last.symbol = InnermostSymbol(sym_last.name)
    /\ sym_last.op = "scope_depth" => sym_last.depth = Len(sym_live) - 1

\* two scopes down, a lookup of x found the symbol of the middle scope,
\* which differs from the global one
C7_FoundInMiddleScope ==
    /\ sym_last.op = "lookup" /\ sym_last.name = "x"
    /\ Len(sym_live) = 3
    /\ "x" \notin DOMAIN CurrentSymbols
    /\ "x" \in DOMAIN symtab.scopes_[sym_live[2]].symbols
    /\ "x" \in DOMAIN symtab.scopes_[1].symbols
    /\ sym_last.symbol = symtab.scopes_[sym_live[2]].symbols["x"]
    /\ sym_last.symbol # symtab.scopes_[1].symbols["x"]

(***************************************************************************)
(* Properties of the semantic types, checked under SpecType                *)
(***************************************************************************)
\* C8: Unknown is never equal to anything.  t1.equals(t2) is false whenever
\* t1 or t2 is Unknown, also when both are.
C8_UnknownNeverEqual ==
    (ty.pc = "done" /\ (ty.t1.kind = "Unknown" \/ ty.t2.kind = "Unknown"))
        => ty.result = FALSE

\* Unknown.equals(Unknown) has returned false
C8_UnknownEqualsUnknown ==
    /\ ty.pc = "done"
    /\ ty.t1 = UnknownType /\ ty.t2 = UnknownType
    /\ ty.result = FALSE

(***************************************************************************)
(* Properties of the type checker, checked under SpecTC                    *)
(***************************************************************************)
\* the error of each function whose name an earlier function has, in order
RECURSIVE DuplicateNameErrors(_, _)
DuplicateNameErrors(program, n) ==
    IF n = 0 THEN <<>>
    ELSE DuplicateNameErrors(program, n - 1)
         \o (IF \E m \in 1..(n - 1) : program[m].name = program[n].name
             THEN <<TypeError("Function is already declared", <<program[n].name>>,
                              <<>>, <<>>)>>
             ELSE <<>>)
\* a checker that has declared the first n signatures and holds no error
RECURSIVE WithSignatures(_, _)
WithSignatures(program, n) ==
    IF n = 0 THEN NewTypeChecker
    ELSE [declare_signature(WithSignatures(program, n - 1), program[n])
            EXCEPT !.errors = <<>>]
\* the errors of the body of function n alone, all signatures being declared
BodyErrors(program, n) ==
    check_function(WithSignatures(program, Len(program)), program[n]).errors
RECURSIVE AllBodyErrors(_, _)
AllBodyErrors(program, n) ==
    IF n = 0 THEN <<>>
    ELSE AllBodyErrors(program, n - 1) \o BodyErrors(program, n)

\* C5: the type checker never short-circuits.  check_program has called
\* check_function on every function, in order, and the result holds one
\* error per duplicate function name followed by the errors of every body;
\* the result is a success exactly when there is none.
C5_NeverShortCircuits ==
    tc_run.pc = "returned" =>
        LET program == tc_run.program
            n == Len(program)
        IN /\ tc_run.checked = [k \in 1..n |-> k - 1]
           /\ tc_run.result.errors =
                 DuplicateNameErrors(program, n) \o AllBodyErrors(program, n)
           /\ tc_run.result.success = (tc_run.result.errors = <<>>)

\* two functions of one name, each with a type error in its body: the
\* result holds the duplicate-name error and the errors of both bodies
C5_ErrorsOfAllFunctions ==
    /\ tc_run.pc = "returned"
    /\ tc_run.program = <<FunctionMismatch, FunctionDuplicates>>
       \/ tc_run.program = <<FunctionUndefined, FunctionDuplicates>>
    /\ Len(DuplicateNameErrors(tc_run.program, 2)) = 1
    /\ BodyErrors(tc_run.program, 1) # <<>>
    /\ BodyErrors(tc_run.program, 2) # <<>>
    /\ Len(tc_run.result.errors) >= 3

(***************************************************************************)
(* Properties of the lexer, checked under SpecLex                          *)
(***************************************************************************)
\* the tokens next_token yields from lexer l on, up to and with the first
\* Eof token, Error tokens not stopping the scan
RECURSIVE ScanToEof(_)
ScanToEof(l) ==
    IF is_at_end(l) THEN <<>>
    ELSE LET r == next_token(l)
         IN IF stops_tokenize_eof_only(r.token) THEN <<r.token>>
            ELSE <<r.token>> \o ScanToEof(r.lexer)
TokenTypes(tokens) == [i \in 1..Len(tokens) |-> tokens[i].type]
\* the types of every token of text, ended by one Eof
TypesOfWholeText(text) ==
    LET types == TokenTypes(ScanToEof(NewLexer(text)))
    IN IF types = <<>> \/ Last(types) # "Eof" THEN Append(types, "Eof") ELSE types

\* C10: the lexer does not halt on errors.  tokenize() returns the token of
\* every lexeme of the source text, those after an Error token included,
\* and a final Eof token.
C10_LexerDoesNotHalt ==
    lx.pc = "returned" =>
        TokenTypes(lx.tokens) = TypesOfWholeText(lx.lexer.source_)

\* the entries of the function table with the name call_function was given
NamedEntries ==
    {i \in 1..Len(bytecode_.functions) :
        bytecode_.functions[i].name = vm_call.function_name}
\* call_function was given a name the function table lacks, or a number of
\* arguments that is not the param_count of the first entry with the name
BadCall ==
    /\ vm_call # NoCall
    /\ \/ NamedEntries = {}
       \/ \E i \in NamedEntries :
             /\ \A j \in NamedEntries : i <= j
             /\ bytecode_.functions[i].param_count # Len(vm_call.args)

\* C11: call_function with an unknown function name or with a number of
\* arguments other than the function's param_count raises an error and
\* executes no instruction: no frame is ever pushed, the operand stack stays
\* empty and no result is produced.
C11_CallFunctionErrors ==
    BadCall =>
        /\ vm_state = "error"
        /\ vm_error.message = IF NamedEntries = {} THEN "Function not found"
                              ELSE "Function expects arguments"
        /\ call_stack_ = <<>>
        /\ stack_ = <<>>
        /\ vm_result = NoValue

\* f takes one parameter and was called with none
C11_WrongArgumentCount ==
    /\ vm_call = [function_name |-> "f", args |-> <<>>]
    /\ source.name = "call"
    /\ NamedEntries # {}
    /\ vm_state = "error"
    /\ vm_error.args = <<Len(source.program[1].parameters), 0>>

\* v is the Int 0 or the Float 0.0
IsZero(v) ==
    \/ v.type = "Int" /\ v.int_val = 0
    \/ v.type = "Float" /\ v.float_val[1] = 0
Numeric(v) == v.type \in {"Int", "Float"}

\* C12: DIV of a numeric dividend by Int 0 or Float 0.0 raises "Division by
\* zero" and MOD of an Int by Int 0 raises "Modulo by zero"; both operands
\* are gone from the stack, no result is pushed and execution is aborted.
C12_DivisionByZero ==
    [][(CurOp \in DivisionOps /\ Len(stack_) >= 2
            /\ IsZero(stack_[Len(stack_)]) /\ Numeric(stack_[Len(stack_) - 1])
            /\ (CurOp = "MOD" =>
                    /\ stack_[Len(stack_)].type = "Int"
                    /\ stack_[Len(stack_) - 1].type = "Int")
            /\ call_stack_' # call_stack_)
         => /\ vm_state' = "error"
            /\ vm_error'.message = IF CurOp = "DIV" THEN "Division by zero"
                                   ELSE "Modulo by zero"
            /\ stack_' = SubSeq(stack_, 1, Len(stack_) - 2)
            /\ vm_result' = NoValue]_vars

\* Int 7 divided by Float 0.0 has raised "Division by zero"
C12_IntByFloatZero ==
    /\ source.name = "division"
    /\ bytecode_.constants = <<IntV(7), FloatV(0, 1)>>
    /\ code_at(6) = OpCode("DIV")
    /\ vm_state = "error"
    /\ vm_error.message = "Division by zero"
    /\ stack_ = <<>>

\* the elements of a List or Tuple value
ElementsOf(v) == IF v.type = "List" THEN v.list_val ELSE v.tuple_val

\* C13: INDEX on a List or Tuple of size s with an Int index i pushes
\* element i when 0 <= i < s; when i < 0 or i >= s it raises the bounds
\* error of the collection's kind, which names i and s, and pushes nothing.
C13_IndexBounds ==
    [][(CurOp = "INDEX" /\ Len(stack_) >= 2
            /\ stack_[Len(stack_)].type = "Int"
            /\ stack_[Len(stack_) - 1].type \in {"List", "Tuple"}
            /\ call_stack_' # call_stack_)
         => LET i == stack_[Len(stack_)].int_val
                collection == stack_[Len(stack_) - 1]
                s == Len(ElementsOf(collection))
                rest == SubSeq(stack_, 1, Len(stack_) - 2)
            IN IF 0 <= i /\ i < s
               THEN /\ vm_state' = "running"
                    /\ stack_' = Append(rest, ElementsOf(collection)[i + 1])
               ELSE /\ vm_state' = "error"
                    /\ vm_error'.message =
                          IF collection.type = "List" THEN "List index out of bounds"
                          ELSE "Tuple index out of bounds"
                    /\ vm_error'.args = <<i, s>>
                    /\ stack_' = rest]_vars

\* index -1 into the tuple (10, 20) has raised the bounds error naming size 2
C13_NegativeTupleIndex ==
    /\ source.name = "index"
    /\ bytecode_.constants = <<TupleV(<<IntV(10), IntV(20)>>), IntV(0 - 1)>>
    /\ vm_state = "error"
    /\ vm_error = [message |-> "Tuple index out of bounds", args |-> <<0 - 1, 2>>]

(***************************************************************************)
(* Properties of the parser, checked under SpecParse                       *)
(***************************************************************************)
\* the tokens of `a op1 b op2 c`
ThreeOperands(op1, op2) == InfixTokens(<<op1, op2>>, FALSE, FALSE) \o <<Tok("Eof", "")>>
\* the trees (a op1 b) op2 c and a op1 (b op2 c)
LeftNested(op1, op2) ==
    Binary(binary_op_from_token(op2)[1],
           Binary(binary_op_from_token(op1)[1], Ident("a"), Ident("b")), Ident("c"))
RightNested(op1, op2) ==
    Binary(binary_op_from_token(op1)[1], Ident("a"),
           Binary(binary_op_from_token(op2)[1], Ident("b"), Ident("c")))

\* C14: parsing `a OP1 b OP2 c` where OP2 is of a strictly higher level than
\* OP1 gives OP1 at the root and OP2 in its right subtree; `a ** b ** c`
\* gives a ** (b ** c) and `a + b + c` gives (a + b) + c.
C14_PrecedenceAndAssociativity ==
    \A op1 \in BinaryOperatorTokens, op2 \in BinaryOperatorTokens :
        (ps.pc = "returned" /\ ps.parser.tokens_ = ThreeOperands(op1, op2))
        => /\ get_binary_precedence(op2) > get_binary_precedence(op1)
                => ps.result = RightNested(op1, op2)
           /\ (op1 = "Power" /\ op2 = "Power") => ps.result = RightNested(op1, op2)
           /\ (op1 = "Plus" /\ op2 = "Plus") => ps.result = LeftNested(op1, op2)

\* `a ** b ** c` has been parsed as a ** (b ** c), with no error
C14_PowerNestsRight ==
    /\ ps.pc = "returned"
    /\ ps.parser.tokens_ = ThreeOperands("Power", "Power")
    /\ ps.result = Binary("Pow", Ident("a"), Binary("Pow", Ident("b"), Ident("c")))
    /\ ps.parser.errors_ = <<>>

(***************************************************************************)
(* Properties of expression checking, checked under SpecExpr               *)
(***************************************************************************)
\* the checks of the left and then of the right operand of ce.expr
LeftOperand == check_expression(NewTypeChecker, ce.expr.left)
RightOperand == check_expression(LeftOperand.tc, ce.expr.right)
\* Int or Float
IntOrFloat(type) == type \in {IntT, FloatT}

\* C15: a binary arithmetic expression (+ - * / % **) whose operands are
\* each of type Int or Float gets type Float when an operand is Float and
\* Int when both are Int, and the check of it reports no error.
C15_TypePromotion ==
    (/\ ce.pc = "returned"
     /\ ce.expr.kind = "Binary"
     /\ ce.expr.op \in {"Add", "Sub", "Mul", "Div", "Mod", "Pow"}
     /\ IntOrFloat(LeftOperand.type)
     /\ IntOrFloat(RightOperand.type))
    => /\ ce.type = IF FloatT \in {LeftOperand.type, RightOperand.type}
                    THEN FloatT ELSE IntT
       /\ ce.checker.errors = <<>>

\* `1 % 2.5` has been given type Float with no error
C15_IntModFloat ==
    /\ ce.pc = "returned"
    /\ ce.expr = Binary("Mod", IntLit(1), FloatLit(5, 2))
    /\ ce.type = FloatT
    /\ ce.checker.errors = <<>>

\* the type check_expression gives element i of the list literal ce.expr
ElementType(i) == check_expression(NewTypeChecker, ce.expr.elements[i]).type
\* some element's type and the first element's type are not equal
Heterogeneous ==
    \E i \in 2..Len(ce.expr.elements) :
        ~equals(ElementType(i), ElementType(1)) \/ ~equals(ElementType(1), ElementType(i))

\* C16: a non-empty list literal in which some element's type is not equal
\* to the first element's type gets at least one error, and its type is
\* List of the first element's type.
C16_ListHomogeneity ==
    (/\ ce.pc = "returned"
     /\ ce.expr.kind = "List"
     /\ ce.expr.elements # <<>>
     /\ Heterogeneous)
    => /\ Len(ce.checker.errors) >= 1
       /\ ce.type = ListType(ElementType(1))

\* `[1, 1, 2.5]` has been given type List[Int] and exactly one error
C16_LastElementDiffers ==
    /\ ce.pc = "returned"
    /\ ce.expr = ListE(<<IntLit(1), IntLit(1), FloatLit(5, 2)>>)
    /\ ce.type = ListType(IntT)
    /\ Len(ce.checker.errors) = 1

\* the code of function k (counted from 0) of a compiled program is the
\* bytes from its offset up to the offset of the next function, or up to the
\* final HALT
CodeStart(k) == bytecode_.functions[k + 1].offset
CodeEnd(k) ==
    IF k + 1 < Len(bytecode_.functions) THEN bytecode_.functions[k + 2].offset
    ELSE Len(Code) - 1

\* C17: the code of every function of a compiled program ends with RETURN,
\* and the VM, while it runs a function, fetches no instruction beyond the
\* end of that function's code.
C17_FunctionsEndWithReturn ==
    ~IsListing(source)
    => /\ \A k \in 0..(Len(bytecode_.functions) - 1) :
              /\ CodeStart(k) < CodeEnd(k)
              /\ code_at(CodeEnd(k) - 1) = OpCode("RETURN")
       /\ Running
            => /\ CodeStart(current_frame.function_index) <= ip
               /\ ip < CodeEnd(current_frame.function_index)

\* the offset just after the code of the if-expression that is the body of f
\* in a "tail_if" program: f is compiled first, at offset 0
TailIfEnd ==
    LET f == source.program[1]
        c == declare_parameters(enter_scope(collect_functions(NewCompiler, source.program)),
                                f.parameters)
    IN current_offset(visit_expr(c, f.body).bytecode_)

\* C18: the code of an if-expression, with or without else, leaves the
\* stack exactly one higher than it was before the condition, along the
\* then path and along the else path.  (f is entered with an empty stack,
\* and its body is the if-expression.)
C18_IfBalanced ==
    (/\ source.name = "tail_if"
     /\ vm_call # NoCall
     /\ vm_call.function_name = "f"
     /\ Running
     /\ ip = TailIfEnd)
    => Len(stack_) = 1

\* the programs of one function main whose first statement is a let, and
\* the offset just after the code of that let
LetFirstSources == {"destructure", "list", "function_reference"}
FirstLetEnd ==
    LET c == enter_scope(collect_functions(NewCompiler, source.program))
    IN current_offset(visit_stmt(c, MainStatements[1]).bytecode_)

\* C19: the code of a let statement leaves the stack at the height it had
\* before the statement.  (main is entered with an empty stack and its
\* first statement is the let.)
C19_LetBalanced ==
    (/\ source.name \in LetFirstSources
     /\ ~IsListing(source)
     /\ vm_call = MainCall
     /\ Running
     /\ ip = FirstLetEnd)
    => Len(stack_) = 0

\* the symbol the type checker's lookup of `x` finds at the return of main of
\* a "shadow" program: the inner block's scope has been exited, so it is the
\* one declared by the first statement, whose initializer gives the value
OuterInitializer == MainStatements[1].initializer

\* C20: a reference to a name after the end of an inner block that declared
\* the same name reads the enclosing block's variable: main of
\* `let x = outer  { let x = inner  x }  return x` returns outer.
C20_ShadowingEnds ==
    (RunsMain("shadow") /\ vm_state = "done")
    => vm_result = IntV(OuterInitializer.int_value)

\* the function call_function was called on, and a value being of a type
CalledFunction ==
    CHOOSE f \in {source.program[i] : i \in 1..Len(source.program)} :
        f.name = vm_call.function_name
ValueHasType(v, type) ==
    CASE type.kind = "Primitive" -> v.type = type.primitive_kind
      [] type.kind = "List" ->
            /\ v.type = "List"
            /\ \A i \in 1..Len(v.list_val) :
                  type.element_type.kind = "Primitive"
                  /\ v.list_val[i].type = type.element_type.primitive_kind
      [] OTHER -> FALSE

\* C21: return-type soundness.  When the type checker accepts a program,
\* the value call_function returns has the declared return type of the
\* function called, also when the body ends without a return statement.
C21_ReturnTypeSoundness ==
    (/\ ~IsListing(source)
     /\ vm_state = "done"
     /\ check_program(source.program).success)
    => ValueHasType(vm_result, ast_type_to_semantic(CalledFunction.return_type))

\* C22: operator soundness.  Running main of `return l op r`, when the type
\* checker accepts the program, never ends in a runtime error: the VM
\* computes a value for every binary operator application the checker
\* accepts (the operands are non-zero literals).
C22_OperatorSoundness ==
    (/\ RunsMain("operator")
     /\ check_program(source.program).success)
    => vm_state # "error"

\* the check of an operand gave it type Unknown and reported an error
FailedOperand(checked, errors_before) ==
    checked.type = UnknownType /\ Len(checked.tc.errors) > Len(errors_before)

\* C23: Unknown is neutral.  An arithmetic expression with one operand that
\* produced an error and got type Unknown, the other operand being of type
\* Int or Float, reports nothing beyond the errors of its operands.
C23_UnknownIsNeutral ==
    (/\ ce.pc = "returned"
     /\ ce.expr.kind = "Binary"
     /\ ce.expr.op \in ArithmeticOps
     /\ \/ FailedOperand(LeftOperand, <<>>) /\ IntOrFloat(RightOperand.type)
        \/ IntOrFloat(LeftOperand.type)
           /\ FailedOperand(RightOperand, LeftOperand.tc.errors))
    => ce.checker.errors = RightOperand.tc.errors

\* frame is a new frame of function func_idx holding the arguments args
NewFrameOf(frame, func_idx, args) ==
    LET func_info == bytecode_.functions[func_idx + 1]
    IN /\ frame.function_index = func_idx
       /\ frame.instruction_pointer = func_info.offset
       /\ Len(frame.locals) = func_info.local_count
       /\ \A i \in 1..Len(frame.locals) :
             frame.locals[i] = IF i <= Len(args) THEN args[i] ELSE IntV(0)

\* C24: the frame pushed by CALL with n arguments, and the one pushed on
\* entry of call_function, has local_count locals, the arguments in push
\* order (left to right in the source) in the first n of them, Int 0 in the
\* others, and the callee's offset as instruction pointer; for
\* `f(3, 4, ..)` of the "call" programs the first locals are 3, 4, ...
C24_NewFrame ==
    [][/\ (CurOp = "CALL" /\ Len(call_stack_') = Len(call_stack_) + 1)
          => /\ NewFrameOf(Last(call_stack_'), read_uint16(ip + 1),
                           TakeLast(stack_, code_at(ip + 3)))
             /\ source.name = "call"
                  => \A i \in 1..code_at(ip + 3) :
                        Last(call_stack_').locals[i] = IntV(2 + i)
       /\ (vm_state = "idle" /\ vm_state' = "running")
          => /\ Len(call_stack_') = 1
             /\ NewFrameOf(call_stack_'[1],
                           find_function(bytecode_, vm_call'.function_name),
                           vm_call'.args)]_vars

\* f(3, 4) has just been entered by CALL: locals 3, 4 and a third local Int 0
C24_TwoArgumentsAndALocal ==
    /\ source.name = "call"
    /\ Len(call_stack_) = 2
    /\ current_frame.locals = <<IntV(3), IntV(4), IntV(0)>>
    /\ ip = bytecode_.functions[current_frame.function_index + 1].offset

\* C25: a RETURN with a caller left pops exactly the callee's frame, and the
\* caller is then at the instruction after the operands of the CALL that made
\* the call, where CALL had saved its instruction pointer; no step of run()
\* changes the locals, or anything else, of a frame below the current one, a
\* recursive activation of the same function included.
C25_ReturnResumesCaller ==
    [][/\ (CurOp = "CALL" /\ Len(call_stack_') = Len(call_stack_) + 1)
          => /\ call_stack_'[Len(call_stack_)].instruction_pointer = ip + 4
             /\ call_stack_'[Len(call_stack_)].locals = current_frame.locals
       /\ (CurOp = "RETURN" /\ Len(call_stack_) > 1)
          => /\ call_stack_' = Front(call_stack_)
             /\ vm_state' = "running"
             /\ OpName(code_at(Last(call_stack_').instruction_pointer - 4)) = "CALL"
       /\ (Running /\ vm_state' = "running")
          => \A i \in 1..(Len(call_stack_) - 1) :
                i <= Len(call_stack_') => call_stack_'[i] = call_stack_[i]]_vars
\* f(2) is back from f(1) = 2: its own a and t are still 2 and 4
C25_BackInOuterActivation ==
    /\ RunsMain("recursive")
    /\ vm_state = "running"
    /\ Len(call_stack_) = 2
    /\ current_frame.locals = <<IntV(2), IntV(4)>>
    /\ OpName(code_at(ip - 4)) = "CALL"
    /\ stack_ # <<>>
    /\ Last(stack_) = IntV(2)

\* the programs whose main is `return if c { .. } else { .. }`, and the
\* compiler at the points of visit_if for that if-expression: after it has
\* emitted each of the two jumps, and when it patches each of them
ReturnedIfSources == {"if", "large_branch"}
ReturnedIf == MainStatements[1].value
AtElseJump ==
    emit_jump(visit_expr(enter_scope(collect_functions(NewCompiler, source.program)),
                         ReturnedIf.condition), "JUMP_IF_FALSE")
AtEndJump ==
    emit_jump(visit_expr(c_emit0(AtElseJump, "POP"), ReturnedIf.then_branch), "JUMP")
ElsePatchOffset == current_offset(AtEndJump.bytecode_)
EndPatchOffset ==
    current_offset(visit_expr(c_emit0(AtEndJump, "POP"),
                              ReturnedIf.else_branch[1]).bytecode_)
\* the operand of the jump at `offset` in the compiled code, as the VM reads it
JumpOperand(offset) == I16(read_uint16(offset + 1))

\* C26: in the compiled code of an if-expression the operand of
\* JUMP_IF_FALSE decodes to the offset at its patch time minus (its own offset
\* + 3) and lands on the else path's POP, and the operand of JUMP decodes to
\* the offset at its patch time minus (its own offset + 3) and lands on the
\* first instruction after the else code, whatever the size of the branches.
C26_JumpOperands ==
    (source.name \in ReturnedIfSources /\ ~IsListing(source))
    => LET else_jump == jump_offset_of(AtElseJump)
           end_jump == jump_offset_of(AtEndJump)
       IN /\ OpName(code_at(else_jump)) = "JUMP_IF_FALSE"
          /\ JumpOperand(else_jump) = ElsePatchOffset - (else_jump + 3)
          /\ JumpTarget(else_jump + 3, read_uint16(else_jump + 1)) = ElsePatchOffset
          /\ OpName(code_at(ElsePatchOffset)) = "POP"
          /\ OpName(code_at(end_jump)) = "JUMP"
          /\ JumpOperand(end_jump) = EndPatchOffset - (end_jump + 3)
          /\ JumpTarget(end_jump + 3, read_uint16(end_jump + 1)) = EndPatchOffset

\* the programs check_program is applied to in the properties below
TypeCheckedSources ==
    {"destructure", "call", "if", "not", "function_reference", "shadow", "result",
     "operator", "recursive"}
\* opcode_operand_size
opcode_operand_size(op) ==
    IF op \in {"CONSTANT", "LOAD_LOCAL", "STORE_LOCAL", "LOAD_GLOBAL", "BUILD_LIST",
               "BUILD_TUPLE", "JUMP", "JUMP_IF_FALSE", "JUMP_IF_TRUE"} THEN 2
    ELSE IF op \in {"CALL_METHOD", "CALL_BUILTIN", "CALL"} THEN 3
    ELSE 0
\* the instructions of `code` from offset `at` on, as a disassembler walks
\* them: does one of them have the opcode op
RECURSIVE HasInstruction(_, _, _)
HasInstruction(code, at, op) ==
    IF at >= Len(code) THEN FALSE
    ELSE LET here == OpName(code[at + 1])
         IN here = op \/ HasInstruction(code, at + 1 + opcode_operand_size(here), op)

\* C27: the bytecode that compile() returns for a program the type checker
\* accepts contains no LOAD_GLOBAL instruction.
C27_NoLoadGlobal ==
    (/\ ~IsListing(source)
     /\ source.name \in TypeCheckedSources
     /\ check_program(source.program).success)
    => ~HasInstruction(Code, 0, "LOAD_GLOBAL")

\* the operands of the STORE_LOCAL instructions of `code` from offset `at` up
\* to offset `end`, in code order
RECURSIVE StoreLocalOperands(_, _, _)
StoreLocalOperands(code, at, end) ==
    IF at >= end THEN <<>>
    ELSE LET here == OpName(code[at + 1])
             rest == StoreLocalOperands(code, at + 1 + opcode_operand_size(here), end)
         IN IF here = "STORE_LOCAL"
            THEN <<code[at + 2] + 256 * code[at + 3]>> \o rest
            ELSE rest
\* the compiler when it is about to compile the body of function k
AtBodyOf(k) ==
    declare_parameters(enter_scope(collect_functions(NewCompiler, source.program)),
                       source.program[k + 1].parameters)

\* C28: in compiled code the parameters of a function resolve to the slots
\* 0..param_count-1, the STORE_LOCALs of the lets of a function all have
\* different slots, none of them a parameter's and each below the recorded
\* local_count, and every LOAD_LOCAL or STORE_LOCAL the VM fetches has an
\* operand smaller than the local_count of the current frame's function and
\* than the length of the frame's locals.
C28_LocalSlotBounds ==
    (~IsListing(source) /\ source.name # "large_branch")
    => /\ \A k \in 0..(Len(bytecode_.functions) - 1) :
            LET info == bytecode_.functions[k + 1]
                parameters == source.program[k + 1].parameters
                stores == StoreLocalOperands(Code, CodeStart(k), CodeEnd(k))
            IN /\ info.param_count = Len(parameters)
               /\ \A i \in 1..Len(parameters) :
                     resolve_local(AtBodyOf(k), parameters[i].name) = i - 1
               /\ \A i \in 1..Len(stores) :
                     /\ info.param_count <= stores[i]
                     /\ stores[i] < info.local_count
                     /\ \A j \in 1..Len(stores) : stores[i] = stores[j] => i = j
       /\ CurOp \in {"LOAD_LOCAL", "STORE_LOCAL"}
          => /\ read_uint16(ip + 1)
                  < bytecode_.functions[current_frame.function_index + 1].local_count
             /\ read_uint16(ip + 1) < Len(current_frame.locals)

\* the VM a first step of call_function(call) leaves when the VM is freshly
\* constructed: nothing on the operand stack, and either the one frame of
\* the called function or the error of the lookup
OnFreshVm(call) ==
    LET func_idx == find_function(bytecode_, call.function_name)
        func_info == bytecode_.functions[func_idx + 1]
    IN IF func_idx < 0
       THEN [stack_ |-> <<>>, call_stack_ |-> <<>>, vm_state |-> "error",
             vm_error |-> [message |-> "Function not found", args |-> <<>>]]
       ELSE IF Len(call.args) # func_info.param_count
       THEN [stack_ |-> <<>>, call_stack_ |-> <<>>, vm_state |-> "error",
             vm_error |-> [message |-> "Function expects arguments",
                           args |-> <<func_info.param_count, Len(call.args)>>]]
       ELSE [stack_ |-> <<>>,
             call_stack_ |-> <<CallFrame(func_idx, func_info.offset, 0,
                                         func_info.local_count, call.args)>>,
             vm_state |-> "running", vm_error |-> NoError]

\* C29: whatever the earlier call_function calls on the VM left behind
\* (values on the operand stack, the frames of calls a runtime error
\* aborted), a new call_function starts run() in the state it starts in on a
\* freshly constructed VM, so that the run, which depends on the bytecode,
\* stack_ and call_stack_ only, ends with the same result or error.
C29_CleanStart ==
    [][vm_earlier'.calls = vm_earlier.calls + 1
       => /\ [stack_ |-> stack_', call_stack_ |-> call_stack_', vm_state |-> vm_state',
              vm_error |-> vm_error'] = OnFreshVm(vm_call')
          /\ vm_result' = NoValue]_vars
\* a second call has run to its result although the call before it was
\* aborted inside a nested call and left two frames and values behind
C29_DoneAfterAbortedCall ==
    /\ vm_earlier.calls = 2
    /\ vm_earlier.frames >= 2
    /\ vm_earlier.stack >= 1
    /\ vm_state = "done"

(***************************************************************************)
(* SpecProgram: Parser::parse on one token sequence.  The sequences are    *)
(* up to MaxTokens tokens of BodyTokens, alone or after the header         *)
(* `function f() returns Int {`, and the final Eof.                        *)
(***************************************************************************)
MaxTokens == 4
BodyTokens ==
    { Tok("Function", "function"), Tok("Identifier", "x"), Tok("LeftBrace", "{"),
      Tok("RightBrace", "}"), Tok("Let", "let"), Tok("Return", "return"),
      Tok("If", "if"), Tok("Assign", "="), Tok("Newline", "") }
FunctionHeader ==
    << Tok("Function", "function"), Tok("Identifier", "f"), Tok("LeftParen", "("),
       Tok("RightParen", ")"), Tok("Returns", "returns"), Tok("TypeInt", "Int"),
       Tok("LeftBrace", "{") >>
ProgramTokens ==
    {header \o body \o <<Tok("Eof", "")>> :
        header \in {<<>>, FunctionHeader}, body \in SeqsOf(BodyTokens, 0, MaxTokens)}

InitProgram ==
    /\ ps \in {[pc |-> "loop", parser |-> NewParser(tokens), functions |-> <<>>] :
                 tokens \in ProgramTokens}
    /\ SymInit /\ VmUnused /\ TypeUnused /\ CheckerUnused /\ LexerUnused
    /\ ExprCheckUnused

\* one iteration of the while (!is_at_end()) loop of parse_program
ParseProgramIteration_without_advance ==
    /\ ps.pc = "loop"
    /\ ~Parser_is_at_end(ps.parser)
    /\ IF Parser_check(ps.parser, "Function")
       THEN \E func \in {parse_function(Parser_advance(ps.parser))} :
               IF func.ok
               THEN ps' = [ps EXCEPT !.parser = func.parser,
                                     !.functions = Append(@, func.node)]
               ELSE ps' = [ps EXCEPT !.parser = synchronize(func.parser)]
       ELSE ps' = [ps EXCEPT !.parser =
                       Parser_error(@, "Expected 'function' at top level")]
    /\ UNCHANGED notParserVars
ParseProgramIteration ==
    /\ ps.pc = "loop"
    /\ ~Parser_is_at_end(ps.parser)
    /\ IF Parser_check(ps.parser, "Function")
       THEN \E func \in {parse_function(Parser_advance(ps.parser))} :
               IF func.ok
               THEN ps' = [ps EXCEPT !.parser = func.parser,
                                     !.functions = Append(@, func.node)]
               ELSE ps' = [ps EXCEPT !.parser = synchronize(func.parser)]
       ELSE ps' = [ps EXCEPT !.parser =
                       Parser_advance(Parser_error(@, "Expected 'function' at top level"))]
    /\ UNCHANGED notParserVars

\* the loop of parse_program ends; Parser::parse moves the program and the
\* errors into the ParseResult
ParseReturn ==
    /\ ps.pc = "loop"
    /\ Parser_is_at_end(ps.parser)
    /\ ps' = [pc |-> "returned", parser |-> ps.parser,
              result |-> [program |-> ps.functions, errors |-> ps.parser.errors_]]
    /\ UNCHANGED notParserVars

NextProgram == ParseProgramIteration \/ ParseReturn

SpecProgram == InitProgram /\ [][NextProgram]_vars

\* the parser at token i of the sequence being parsed
ParserAt(i) == [tokens_ |-> ps.parser.tokens_, current_ |-> i, errors_ |-> <<>>]

====
